---- MODULE Spec2Model ----
(***************************************************************************)
(* Background processing pipeline of infra-diagram: the processing_queue   *)
(* job table (services/database.js), the single-worker poll loop           *)
(* (services/queue-worker.js), the session pipeline                        *)
(* (services/session-processor.js) and the queue endpoints (routes/api.js).*)
(*                                                                         *)
(* Node runs every handler to its first await without interleaving, so an  *)
(* action is one synchronous stretch of code: an HTTP handler, a timer     *)
(* callback, or the continuation that runs when an awaited collaborator    *)
(* call settles.                                                           *)
(***************************************************************************)
EXTENDS Integers, Sequences, FiniteSets, TLC

(* ---------------------------- bounds ---------------------------------- *)
\* rows ever inserted into processing_queue (AUTOINCREMENT never reuses ids)
MaxJobs == 2
\* last value of the store clock (CURRENT_TIMESTAMP, one tick per value)
MaxTime == 2
\* pipeline runs awaiting a collaborator at the same time
MaxRuns == 2
\* longest sessions array of one bulk request
MaxBulk == 2

\* clearOldCompleted keeps terminal rows for 7 days; the clock of the model
\* counts in units of that retention period
PruneAge == 1

URLs == {"u1", "u2"}
Titles == {"tA", "tB"}
\* message of an error thrown by a collaborator; "" is an Error without text
CollabErrors == {"upstream", ""}

NullT == -1
NullS == "NULL"
\* a NULL foreign key
NoId == 0

VARIABLES
  jobs,             \* processing_queue: id -> row
  jobSeq,           \* sqlite_sequence of processing_queue
  notes,            \* session_notes: session_url -> row state
  lastInsertRowid,  \* rowid of the connection's most recent INSERT, kept as
                    \* 0 (none yet) or 1 (some rowid): the routes test it for
                    \* truthiness only
  now,              \* CURRENT_TIMESTAMP
  isRunning,        \* queue-worker.js: let isRunning
  pollInterval,     \* queue-worker.js: the interval timers that are armed
                    \* (let pollInterval holds the handle of the last one)
  runs,             \* processSession invocations awaiting a collaborator
  lastEvent,        \* last event handed to notifyListeners
  resp,             \* last HTTP response
  persisted,        \* history: per url, runs that wrote the SessionNote
  returned,         \* the value processSession resolved with in this turn
  logged,           \* what createDiagramIfTechnical logged in this turn
  results,          \* the counts POST /api/queue/bulk answered with in this turn
  listeners,        \* queue-worker.js: const listeners (a Set, in insertion order)
  received          \* the calls notifyListeners made to listeners in this turn

VARIABLES
  customers,        \* customers: id -> row
  diagrams,         \* diagrams: id -> row
  versions,         \* diagram_versions: id -> row
  dsessions,        \* diagram_sessions: rows [diagram_id, session_url]
  action_items,     \* action_items: id -> row
  noteInfo,         \* session_notes: session_url -> customer_id, call_type
  seqs              \* sqlite_sequence of the four tables above

\* the tables of customers, diagrams and action items
dvars == <<customers, diagrams, versions, dsessions, action_items, noteInfo, seqs>>

vars == <<jobs, jobSeq, notes, lastInsertRowid, now, isRunning,
          pollInterval, runs, lastEvent, resp, persisted, returned, logged,
          results, listeners, received, dvars>>

(* ------------------------- store: session_notes ------------------------ *)
\* a url has no row, a skip placeholder (skipped = TRUE) or a processed note
NoNote == "none"

\* notesOps.exists: a row with skipped = FALSE
isSessionProcessed(u) == notes[u] = "processed"

\* a lookup that finds no skip placeholder
NeverSkipped(u) == FALSE

\* notesOps.isSkipped: a row with skipped = TRUE
isSessionSkipped(u) == notes[u] = "skipped"

validateSession(u) ==
  IF isSessionProcessed(u) THEN [valid |-> FALSE, error |-> "Session already processed"]
  ELSE IF isSessionSkipped(u) THEN [valid |-> FALSE, error |-> "Session was skipped"]
  ELSE [valid |-> TRUE, error |-> NullS]

\* wave.isAuthenticated() / perplexity.isConfigured() are read from the
\* collaborators: w and p are their answers
validateServices(w, p) ==
  IF ~w THEN [valid |-> FALSE, error |-> "Wave not authenticated"]
  ELSE IF ~p THEN [valid |-> FALSE, error |-> "Perplexity API not configured"]
  ELSE [valid |-> TRUE, error |-> NullS]

(* ----------------------- store: processing_queue ----------------------- *)
Ids == DOMAIN jobs

WithStatus(q, s) == {i \in DOMAIN q : q[i].status = s}

RowOfUrl(q, u) == {i \in DOMAIN q : q[i].url = u}

\* a lookup that finds no queued job
NeverQueued(u) == FALSE

\* queueOps.isQueued
isSessionQueued(u) ==
  \E i \in Ids : jobs[i].url = u /\ jobs[i].status \in {"pending", "processing"}

NewRow(u, t, ts) ==
  [url |-> u, title |-> t, status |-> "pending", error |-> NullS,
   result_summary |-> NullS, customer_id |-> NoId, created_at |-> ts,
   started_at |-> NullT, completed_at |-> NullT]

\* an INSERT that ignores the conflict and never resets a failed row
queueAddInsertOnly(st, u, t, ts) ==
  IF RowOfUrl(st.jobs, u) = {}
  THEN [jobs |-> [i \in DOMAIN st.jobs \cup {st.seq + 1} |->
                    IF i = st.seq + 1 THEN NewRow(u, t, ts) ELSE st.jobs[i]],
        seq |-> st.seq + 1, last |-> 1]
  ELSE st

\* an INSERT into a table without the UNIQUE constraint on session_url
queueAddNoConflict(st, u, t, ts) ==
  [jobs |-> [i \in DOMAIN st.jobs \cup {st.seq + 1} |->
               IF i = st.seq + 1 THEN NewRow(u, t, ts) ELSE st.jobs[i]],
   seq |-> st.seq + 1, last |-> 1]

\* queueOps.add: INSERT ... ON CONFLICT(session_url) DO UPDATE ... WHERE
\* status = 'failed'.  st = [jobs, seq, last]
queueAdd(st, u, t, ts) ==
  LET q == st.jobs
      hit == RowOfUrl(q, u)
  IN IF hit = {}
     THEN LET id == st.seq + 1
          IN [jobs |-> [i \in DOMAIN q \cup {id} |->
                          IF i = id THEN NewRow(u, t, ts) ELSE q[i]],
              seq |-> id, last |-> 1]
     ELSE LET id == CHOOSE i \in hit : TRUE
          IN IF q[id].status = "failed"
             THEN [st EXCEPT !.jobs[id].status = "pending",
                             !.jobs[id].title = t,
                             !.jobs[id].error = NullS,
                             !.jobs[id].started_at = NullT,
                             !.jobs[id].completed_at = NullT]
             ELSE st

\* addToQueue returns result.lastInsertRowid, which an upsert that took the
\* UPDATE branch (or changed nothing) leaves at the previous INSERT's rowid
addToQueue(st, u, t, ts) == queueAdd(st, u, t, ts)

StoreSt == [jobs |-> jobs, seq |-> jobSeq, last |-> lastInsertRowid]

(* --------------------------- queue statements ------------------------- *)
\* queueOps.getNextPending: ORDER BY created_at ASC LIMIT 1.  The statement
\* names no second sort key, so among rows of equal created_at the store may
\* return any one.
getNextPending(q) ==
  {i \in WithStatus(q, "pending") :
     \A j \in WithStatus(q, "pending") : q[i].created_at <= q[j].created_at}

\* queueOps.markProcessing (WHERE id = ?)
markJobProcessing(q, id, ts) ==
  IF id \in DOMAIN q
  THEN [q EXCEPT ![id].status = "processing", ![id].started_at = ts]
  ELSE q

\* queueOps.markCompleted (WHERE id = ?)
markJobCompleted(q, id, summary, c, ts) ==
  IF id \in DOMAIN q
  THEN [q EXCEPT ![id].status = "completed", ![id].completed_at = ts,
                 ![id].result_summary = summary, ![id].customer_id = c]
  ELSE q

\* a markFailed that does not store the message
markJobFailedNoMessage(q, id, error, ts) ==
  IF id \in DOMAIN q
  THEN [q EXCEPT ![id].status = "failed", ![id].completed_at = ts]
  ELSE q

\* a markFailed whose UPDATE is lost
markJobFailedLost(q, id, error, ts) == q

\* queueOps.markFailed (WHERE id = ?)
markJobFailed(q, id, error, ts) ==
  IF id \in DOMAIN q
  THEN [q EXCEPT ![id].status = "failed", ![id].completed_at = ts,
                 ![id].error = error]
  ELSE q

\* queueOps.deletePending
deleteFromQueue(q, id) ==
  [i \in {j \in DOMAIN q : ~(j = id /\ q[j].status = "pending")} |-> q[i]]

\* a retry that flips the status and clears nothing
retryStatusOnly(q, id) ==
  IF id \in DOMAIN q /\ q[id].status = "failed"
  THEN [q EXCEPT ![id].status = "pending"]
  ELSE q

\* queueOps.retryFailed
retryQueueJob(q, id) ==
  IF id \in DOMAIN q /\ q[id].status = "failed"
  THEN [q EXCEPT ![id].status = "pending", ![id].error = NullS,
                 ![id].started_at = NullT, ![id].completed_at = NullT]
  ELSE q

InterruptedError == "Processing interrupted - app restarted"

\* a recovery that resets nothing
resetStaleNothing(q, ts) == q

\* the value of a call that returns nothing; a number would be
\* [defined |-> TRUE, n |-> the number]
Undefined == [defined |-> FALSE, n |-> 0]

\* what resetStaleQueueJobs() evaluates to: the function logs
\* result.changes when it is positive and has no return statement
resetStaleReturn(q) == Undefined

\* start(): const staleCount = db.resetStaleQueueJobs()
staleCount(q) == resetStaleReturn(q)

\* queueOps.resetStale
resetStaleQueueJobs(q, ts) ==
  [i \in DOMAIN q |->
     IF q[i].status = "processing"
     THEN [q[i] EXCEPT !.status = "failed", !.error = InterruptedError,
                       !.completed_at = ts]
     ELSE q[i]]

\* a prune by the age of the row, whatever its status
clearOldAnyStatus(q, ts) ==
  [i \in {j \in DOMAIN q : ~(q[j].created_at < ts - PruneAge)} |-> q[i]]

\* queueOps.clearOldCompleted: completed_at < datetime('now', '-7 days');
\* a NULL completed_at compares as unknown and the row stays
clearOldQueueJobs(q, ts) ==
  [i \in {j \in DOMAIN q :
            ~(/\ q[j].status \in {"completed", "failed"}
              /\ q[j].completed_at # NullT
              /\ q[j].completed_at < ts - PruneAge)} |-> q[i]]

(* ------------- store: customers, diagrams, versions, items ------------- *)
\* rows ever inserted into customers, diagrams, diagram_versions, action_items
MaxCustomers == 2
MaxDiagrams == 2
MaxVersions == 2
MaxItems == 2

\* processSession: analysis.customerName || 'Unknown Customer'
UnknownName == "Unknown Customer"
CustomerNames == {"Acme", "Acme Corp", UnknownName}

\* name LIKE '%q%' over CustomerNames
Contains(n, q) == n = q \/ (n = "Acme Corp" /\ q = "Acme")
\* ORDER BY name over CustomerNames
NameRank(n) == IF n = "Acme" THEN 1 ELSE IF n = "Acme Corp" THEN 2 ELSE 3

ItemTexts == {"i1", "i2"}

Put(f, id, row) == [i \in DOMAIN f \cup {id} |-> IF i = id THEN row ELSE f[i]]
Without(f, S) == [i \in DOMAIN f \ S |-> f[i]]
MaxOf(S) == CHOOSE x \in S : \A y \in S : y <= x

\* session_notes columns customer_id and call_type of a url without a
\* processed note
NoInfo == [customer_id |-> NoId, call_type |-> NullS]
\* the columns of a skip placeholder: customer_id NULL, call_type at its
\* default 'technical'
SkipInfo == [customer_id |-> NoId, call_type |-> "technical"]

\* the tables as one value, for the functions that write several of them
Db ==
  [customers |-> customers, diagrams |-> diagrams, versions |-> versions,
   dsessions |-> dsessions, items |-> action_items, noteInfo |-> noteInfo,
   seqs |-> seqs]

SetDb(d) ==
  /\ customers' = d.customers
  /\ diagrams' = d.diagrams
  /\ versions' = d.versions
  /\ dsessions' = d.dsessions
  /\ action_items' = d.items
  /\ noteInfo' = d.noteInfo
  /\ seqs' = d.seqs

\* createCustomer: INSERT INTO customers (name, is_unknown)
createCustomer(d, name, isUnknown) ==
  LET id == d.seqs.customers + 1
  IN [db |-> [d EXCEPT !.customers = Put(@, id, [name |-> name,
                                                 is_unknown |-> isUnknown]),
                       !.seqs.customers = id],
      id |-> id]

\* the rows a query may return first: those matching with the least name
\* (ORDER BY name leaves the order of equal names open)
FirstByName(d, matches) ==
  {c \in matches :
     \A x \in matches : NameRank(d.customers[c].name) <= NameRank(d.customers[x].name)}

\* searchCustomers(query)[0]: name LIKE '%query%' ORDER BY name
searchCustomers(d, q) ==
  FirstByName(d, {c \in DOMAIN d.customers : Contains(d.customers[c].name, q)})

\* customerOps.search.get(name): name LIKE name ORDER BY name, first row
searchExact(d, name) ==
  FirstByName(d, {c \in DOMAIN d.customers : d.customers[c].name = name})

\* updateCustomer(id, name, isUnknown)
updateCustomer(d, id, name, isUnknown) ==
  IF id \in DOMAIN d.customers
  THEN [d EXCEPT !.customers[id] = [name |-> name, is_unknown |-> isUnknown]]
  ELSE d

DiagramsOf(d, c) == {g \in DOMAIN d.diagrams : d.diagrams[g].customer_id = c}
VersionsOf(d, g) == {v \in DOMAIN d.versions : d.versions[v].diagram_id = g}

\* getDiagramByCustomer: ORDER BY created_at DESC LIMIT 1; diagrams created
\* within the same second tie
getDiagramByCustomer(d, c) ==
  {g \in DiagramsOf(d, c) :
     \A h \in DiagramsOf(d, c) : d.diagrams[h].created_at <= d.diagrams[g].created_at}

\* createDiagram: INSERT INTO diagrams (customer_id)
createDiagram(d, c, ts) ==
  LET id == d.seqs.diagrams + 1
  IN [db |-> [d EXCEPT !.diagrams = Put(@, id, [customer_id |-> c,
                                               created_at |-> ts]),
                       !.seqs.diagrams = id],
      id |-> id]

\* versionOps.getNextVersion: COALESCE(MAX(version), 0) + 1
getNextVersion(d, g) ==
  MaxOf({0} \cup {d.versions[v].version : v \in VersionsOf(d, g)}) + 1

\* createVersion: the row starts with png_path NULL
createVersion(d, g) ==
  LET id == d.seqs.versions + 1
      n == getNextVersion(d, g)
  IN [db |-> [d EXCEPT !.versions = Put(@, id, [diagram_id |-> g,
                                               version |-> n,
                                               png_path |-> NullS]),
                       !.seqs.versions = id],
      id |-> id, version |-> n]

\* getVersion(diagramId, version)
getVersion(d, g, n) == {v \in VersionsOf(d, g) : d.versions[v].version = n}

\* updateVersionPngPath: UPDATE ... WHERE id = ?
updateVersionPngPath(d, v, png) ==
  IF v \in DOMAIN d.versions THEN [d EXCEPT !.versions[v].png_path = png] ELSE d

\* DELETE FROM diagram_versions WHERE id = ?
deleteVersion(d, v) == [d EXCEPT !.versions = Without(@, {v})]

\* addSession: INSERT INTO diagram_sessions (the table is kept as a set of
\* (diagram_id, session_url) pairs)
addSession(d, g, u) ==
  [d EXCEPT !.dsessions = @ \cup {[diagram_id |-> g, session_url |-> u]}]

\* getDiagramSessionByUrl: the rows of one url
getDiagramSessionByUrl(d, u) == {s \in d.dsessions : s.session_url = u}

\* DELETE FROM diagrams WHERE id = ?, with the cascade to versions and sessions
deleteDiagram(d, g) ==
  [d EXCEPT !.diagrams = Without(@, {g}),
            !.versions = Without(@, VersionsOf(d, g)),
            !.dsessions = {s \in @ : s.diagram_id # g}]

RECURSIVE deleteDiagrams(_, _)
deleteDiagrams(d, G) ==
  IF G = {} THEN d
  ELSE LET g == CHOOSE x \in G : TRUE
       IN deleteDiagrams(deleteDiagram(d, g), G \ {g})

\* processing_queue.customer_id REFERENCES customers(id) ON DELETE SET NULL
customerDeleted(q, c) ==
  [i \in DOMAIN q |-> IF q[i].customer_id = c
                      THEN [q[i] EXCEPT !.customer_id = NoId] ELSE q[i]]

\* DELETE FROM customers WHERE id = ?: diagrams and action items of the
\* customer cascade, session notes keep their row with customer_id NULL
deleteCustomer(d, c) ==
  LET e == deleteDiagrams(d, DiagramsOf(d, c))
  IN [e EXCEPT !.customers = Without(@, {c}),
               !.items = Without(@, {i \in DOMAIN e.items : e.items[i].customer_id = c}),
               !.noteInfo = [u \in DOMAIN @ |->
                               IF @[u].customer_id = c
                               THEN [@[u] EXCEPT !.customer_id = NoId]
                               ELSE @[u]]]

\* updateDiagramCustomer: UPDATE diagrams SET customer_id = ? WHERE id = ?
updateDiagramCustomer(d, g, c) ==
  IF g \in DOMAIN d.diagrams THEN [d EXCEPT !.diagrams[g].customer_id = c] ELSE d

\* addDiagramVersion: the outcomes it can have, one per row the two lookups
\* may return
addDiagramVersion(d, name, u, isUnknown, ts) ==
  LET custs == IF isUnknown \/ searchExact(d, name) = {}
               THEN {createCustomer(d, name, isUnknown)}
               ELSE {[db |-> d, id |-> c] : c \in searchExact(d, name)}
      diags(c) == IF getDiagramByCustomer(c.db, c.id) = {}
                  THEN {createDiagram(c.db, c.id, ts)}
                  ELSE {[db |-> c.db, id |-> g] : g \in getDiagramByCustomer(c.db, c.id)}
      out(c, g) == LET v == createVersion(g.db, g.id)
                   IN [db |-> IF u = NullS THEN v.db ELSE addSession(v.db, g.id, u),
                       customerId |-> c.id, diagramId |-> g.id,
                       versionId |-> v.id, version |-> v.version]
  IN UNION {{out(c, g) : g \in diags(c)} : c \in custs}

\* saveSessionNotes: the columns of the note the model keeps
saveSessionNotes(d, u, c, callType) ==
  [d EXCEPT !.noteInfo[u] = [customer_id |-> c, call_type |-> callType]]

\* updateSessionCustomer: UPDATE session_notes SET customer_id = ?
updateSessionCustomer(d, u, c) == [d EXCEPT !.noteInfo[u].customer_id = c]

\* createActionItem: completed defaults to FALSE, completed_at to NULL
createActionItem(d, u, c, text) ==
  LET id == d.seqs.items + 1
  IN [d EXCEPT !.items = Put(@, id, [note |-> u, customer_id |-> c,
                                     text |-> text, completed |-> FALSE,
                                     completed_at |-> NullT]),
               !.seqs.items = id]

RECURSIVE createActionItems(_, _, _, _)
createActionItems(d, u, c, n) ==
  IF n = 0 THEN d
  ELSE createActionItems(createActionItem(d, u, c, "i1"), u, c, n - 1)

\* saveActionItemsFromSession: the items of the note are replaced
saveActionItemsFromSession(d, u, c, n) ==
  createActionItems(
    [d EXCEPT !.items = Without(@, {i \in DOMAIN @ : @[i].note = u})], u, c, n)

\* a toggle that marks the item completed whatever it was
toggleSetsCompleted(d, i, ts) ==
  [d EXCEPT !.items[i].completed = TRUE, !.items[i].completed_at = ts]

\* a toggle that leaves completed_at alone
toggleKeepsTimestamp(d, i, ts) ==
  [d EXCEPT !.items[i].completed = ~@]

\* actionItemOps.toggleComplete: both right-hand sides read the row as it
\* was before the UPDATE
toggleComplete(d, i, ts) ==
  [d EXCEPT !.items[i].completed = ~d.items[i].completed,
            !.items[i].completed_at =
               IF d.items[i].completed = FALSE THEN ts ELSE NullT]

\* moveActionItemToCustomer: UPDATE action_items SET customer_id = ?
moveActionItemToCustomer(d, i, c) == [d EXCEPT !.items[i].customer_id = c]

\* updateActionItem: UPDATE action_items SET owner, item, session_date
updateActionItem(d, i, text) == [d EXCEPT !.items[i].text = text]

\* a keep-notes delete that also drops the items of the diagram's customer
deleteDiagramWithActionItems(d, g) ==
  LET e == deleteDiagram(d, g)
  IN [e EXCEPT !.items = Without(@, {i \in DOMAIN @ :
                                       @[i].customer_id = d.diagrams[g].customer_id})]

\* deleteDiagramKeepActionItems: the notes of the diagram's sessions become
\* non-technical; versions, sessions and the diagram are deleted
deleteDiagramKeepActionItems(d, g) ==
  LET urls == {s.session_url : s \in {x \in d.dsessions : x.diagram_id = g}}
      e == [d EXCEPT !.noteInfo = [u \in DOMAIN @ |->
                                     IF u \in urls /\ notes[u] # NoNote
                                     THEN [@[u] EXCEPT !.call_type = "non-technical"]
                                     ELSE @[u]]]
  IN deleteDiagram(e, g)

(* ------------------------------ worker --------------------------------- *)
NoEvent == [type |-> "none", job |-> 0, error |-> NullS]
\* the analysis a run holds before the analyzer has answered
NoAnalysis == [callType |-> NullS, customerName |-> NullS,
               mermaidCode |-> NullS, actionItems |-> 0]
\* createDiagramIfTechnical: let result = { customerId: null, diagramId: null }
NoResult == [customerId |-> NoId, diagramId |-> NoId, versionId |-> NoId]
NoRun == [kind |-> "none", job |-> 0, url |-> NullS, stage |-> "none",
          a |-> NoAnalysis, res |-> NoResult]
\* a request or run that has just reached its first await
NewRun(kind, job, u, stage, a, res) ==
  [kind |-> kind, job |-> job, url |-> u, stage |-> stage, a |-> a, res |-> res]
\* console.warn / console.error of createDiagramIfTechnical
NoLog == "none"
InvalidLog == "Generated Mermaid invalid"
RenderLog == "PNG render failed"
NoReturn == [settled |-> FALSE, hasDiagram |-> FALSE, customerId |-> NoId,
             diagramId |-> NoId]
NoCounts == [queued |-> 0, skipped |-> 0, alreadyProcessed |-> 0,
             alreadyQueued |-> 0, errors |-> 0]
NoResp == [op |-> "none", code |-> 0, info |-> NullS]

\* the callbacks a caller may register with addListener: l1 throws on every
\* event, l2 returns
Listeners == {"l1", "l2"}
Throws(l) == l = "l1"

\* cb(event) as the callback sees it: the event and, should it read the
\* store, the status the job row has at that instant
Call(l, type, id, q) ==
  [to |-> l, type |-> type, job |-> id,
   seen |-> IF id \in DOMAIN q THEN q[id].status ELSE "none"]

\* a forEach without try/catch: the first callback that throws ends it
notifyUnguarded(ls, type, id, q) ==
  LET throwing == {k \in 1..Len(ls) : Throws(ls[k])}
      last == IF throwing = {} THEN Len(ls)
              ELSE CHOOSE k \in throwing : \A j \in throwing : k <= j
  IN [k \in 1..last |-> Call(ls[k], type, id, q)]

\* notifyListeners: listeners.forEach(cb => { try { cb(event) } catch ... }),
\* called when the store holds the job rows q
notifyListeners(ls, type, id, q) ==
  [k \in 1..Len(ls) |-> Call(ls[k], type, id, q)]

Reply(op, code, info) == [op |-> op, code |-> code, info |-> info]

\* no response and no event of the current event-loop turn is outstanding
Idle == resp = NoResp /\ lastEvent = NoEvent

\* runs is a table of MaxRuns slots; a handler that would start a run when
\* every slot is taken is left out of the behaviours explored
FreeSlots == {r \in 1..MaxRuns : runs[r].kind = "none"}
Active == {r \in 1..MaxRuns : runs[r].kind # "none"}
WorkerRuns == {r \in Active : runs[r].kind = "worker"}

\* error.message || 'Unknown error'
ErrorMessage(m) == IF m = "" THEN "Unknown error" ELSE m

\* fetchTranscript: !transcript || transcript.length < 100
MinTranscriptLen == 100
TranscriptLens == {0, 99, 100}
\* a check that lets every transcript pass
TranscriptNeverShort(len) == FALSE
TranscriptTooShort(len) == len = 0 \/ len < MinTranscriptLen

\* queue-worker.js: `${callType === 'technical' ? 'Technical' : 'Non-technical'}: ${customerName}`
\* with customerName = analysis.customerName || 'Unknown Customer'
Summary(callType, name) ==
  IF callType = "technical"
  THEN (IF name = NullS THEN "Technical: Unknown Customer" ELSE "Technical: Acme")
  ELSE (IF name = NullS THEN "Non-technical: Unknown Customer" ELSE "Non-technical: Acme")

Init ==
  /\ jobs = [i \in {} |-> NewRow(NullS, NullS, 0)]
  /\ jobSeq = 0
  /\ notes = [u \in URLs |-> NoNote]
  /\ lastInsertRowid = 0
  /\ now = 0
  /\ isRunning = FALSE
  /\ pollInterval = 0
  /\ runs = [r \in 1..MaxRuns |-> NoRun]
  /\ lastEvent = NoEvent
  /\ resp = NoResp
  /\ persisted = [u \in URLs |-> 0]
  /\ returned = NoReturn
  /\ logged = NoLog
  /\ results = NoCounts
  /\ listeners = << >>
  /\ received = << >>
  /\ customers = [i \in {} |-> [name |-> NullS, is_unknown |-> FALSE]]
  /\ diagrams = [i \in {} |-> [customer_id |-> NoId, created_at |-> 0]]
  /\ versions = [i \in {} |-> [diagram_id |-> NoId, version |-> 0, png_path |-> NullS]]
  /\ dsessions = {}
  /\ action_items = [i \in {} |-> [note |-> NullS, customer_id |-> NoId, text |-> NullS,
                                   completed |-> FALSE, completed_at |-> NullT]]
  /\ noteInfo = [u \in URLs |-> NoInfo]
  /\ seqs = [customers |-> 0, diagrams |-> 0, versions |-> 0, items |-> 0]

\* CURRENT_TIMESTAMP advances
Tick ==
  /\ Idle
  /\ UNCHANGED <<dvars, returned, logged, results>>
  /\ now < MaxTime
  /\ now' = now + 1
  /\ UNCHANGED <<jobs, jobSeq, notes, lastInsertRowid, isRunning, listeners,
                 pollInterval, runs, lastEvent, received, resp, persisted>>

(* ----------------------------- queue API ------------------------------- *)
\* POST /api/queue
Enqueue(u, t) ==
  /\ Idle
  /\ UNCHANGED <<dvars, returned, logged, results>>
  /\ UNCHANGED <<notes, now, isRunning, listeners, pollInterval, runs, lastEvent, received, persisted>>
  /\ IF u = ""
     THEN /\ resp' = Reply("enqueue", 400, "session_url required")
          /\ UNCHANGED <<jobs, jobSeq, lastInsertRowid>>
     ELSE IF isSessionProcessed(u)
     THEN /\ resp' = Reply("enqueue", 409, "Session already processed")
          /\ UNCHANGED <<jobs, jobSeq, lastInsertRowid>>
     ELSE IF isSessionSkipped(u)
     THEN /\ resp' = Reply("enqueue", 409, "Session was skipped")
          /\ UNCHANGED <<jobs, jobSeq, lastInsertRowid>>
     ELSE IF isSessionQueued(u)
     THEN /\ resp' = Reply("enqueue", 409, "Session already queued")
          /\ UNCHANGED <<jobs, jobSeq, lastInsertRowid>>
     ELSE LET st == addToQueue(StoreSt, u, t, now)
          IN /\ st.seq <= MaxJobs
             /\ jobs' = st.jobs
             /\ jobSeq' = st.seq
             /\ lastInsertRowid' = st.last
             /\ resp' = IF st.last = 0
                        THEN Reply("enqueue", 409, "Session already in queue")
                        ELSE Reply("enqueue", 201, u)

\* one iteration of the loop of POST /api/queue/bulk over the store state
\* b = [st, c]: st as in queueAdd, c the results object
BulkItem(b, u, t, ts) ==
  IF u = "" THEN [b EXCEPT !.c.errors = @ + 1]
  ELSE IF isSessionProcessed(u) THEN [b EXCEPT !.c.alreadyProcessed = @ + 1]
  ELSE IF isSessionSkipped(u) THEN [b EXCEPT !.c.skipped = @ + 1]
  ELSE IF \E i \in DOMAIN b.st.jobs :
             /\ b.st.jobs[i].url = u
             /\ b.st.jobs[i].status \in {"pending", "processing"}
       THEN [b EXCEPT !.c.alreadyQueued = @ + 1]
  ELSE LET st == addToQueue(b.st, u, t, ts)
       IN IF st.last # 0
          THEN [st |-> st, c |-> [b.c EXCEPT !.queued = @ + 1]]
          ELSE [st |-> st, c |-> [b.c EXCEPT !.alreadyQueued = @ + 1]]

\* a loop that gives up at the first item without session_url
RECURSIVE BulkLoopStops(_, _, _, _)
BulkLoopStops(b, items, t, ts) ==
  IF items = << >> THEN b
  ELSE IF Head(items) = "" THEN BulkItem(b, "", t, ts)
  ELSE BulkLoopStops(BulkItem(b, Head(items), t, ts), Tail(items), t, ts)

\* for (const session of toQueue) { ... }
RECURSIVE BulkLoop(_, _, _, _)
BulkLoop(b, items, t, ts) ==
  IF items = << >> THEN b
  ELSE BulkLoop(BulkItem(b, Head(items), t, ts), Tail(items), t, ts)

\* limit ? sessions.slice(0, limit) : sessions
ToQueue(sessions, limit) ==
  IF limit = 0 THEN sessions
  ELSE SubSeq(sessions, 1, IF limit < Len(sessions) THEN limit ELSE Len(sessions))

\* the sessions arrays of at most n elements; "" is an element without
\* session_url
SessionLists(urls, n) == UNION {[1..k -> urls \cup {""}] : k \in 0..n}

BulkInputs(urls) == SessionLists(urls, MaxBulk)

\* POST /api/queue/bulk
EnqueueBulk(sessions, limit, t) ==
  LET toQueue == ToQueue(sessions, limit)
      b == BulkLoop([st |-> StoreSt, c |-> NoCounts], toQueue, t, now)
  IN /\ Idle
     /\ UNCHANGED <<dvars, returned, logged>>
     /\ results' = b.c
     /\ b.st.seq <= MaxJobs
     /\ jobs' = b.st.jobs
     /\ jobSeq' = b.st.seq
     /\ lastInsertRowid' = b.st.last
     /\ resp' = Reply("bulk", 200, NullS)
     /\ UNCHANGED <<notes, now, isRunning, listeners, pollInterval, runs, lastEvent, received, persisted>>

\* a cancel that deletes the row whatever its status
CancelAnyStatus(id) ==
  /\ Idle
  /\ UNCHANGED <<dvars, returned, logged, results>>
  /\ UNCHANGED <<jobSeq, notes, lastInsertRowid, now, isRunning, listeners,
                 pollInterval, runs, lastEvent, received, persisted>>
  /\ IF id \notin Ids
     THEN /\ resp' = Reply("cancel", 404, "Job not found")
          /\ UNCHANGED <<jobs>>
     ELSE /\ jobs' = [i \in Ids \ {id} |-> jobs[i]]
          /\ resp' = Reply("cancel", 200, "deleted")

\* DELETE /api/queue/:id
Cancel(id) ==
  /\ Idle
  /\ UNCHANGED <<dvars, returned, logged, results>>
  /\ UNCHANGED <<jobSeq, notes, lastInsertRowid, now, isRunning, listeners,
                 pollInterval, runs, lastEvent, received, persisted>>
  /\ IF id \notin Ids
     THEN /\ resp' = Reply("cancel", 404, "Job not found")
          /\ UNCHANGED <<jobs>>
     ELSE IF jobs[id].status # "pending"
     THEN /\ resp' = Reply("cancel", 400, jobs[id].status)
          /\ UNCHANGED <<jobs>>
     ELSE /\ jobs' = deleteFromQueue(jobs, id)
          /\ resp' = IF id \in DOMAIN jobs'
                     THEN Reply("cancel", 400, "Could not cancel job")
                     ELSE Reply("cancel", 200, "deleted")

\* POST /api/queue/:id/retry
Retry(id) ==
  /\ Idle
  /\ UNCHANGED <<dvars, returned, logged, results>>
  /\ UNCHANGED <<jobSeq, notes, lastInsertRowid, now, isRunning, listeners,
                 pollInterval, runs, lastEvent, received, persisted>>
  /\ IF id \notin Ids
     THEN /\ resp' = Reply("retry", 404, "Job not found")
          /\ UNCHANGED jobs
     ELSE IF jobs[id].status # "failed"
     THEN /\ resp' = Reply("retry", 400, jobs[id].status)
          /\ UNCHANGED jobs
     ELSE /\ jobs' = retryQueueJob(jobs, id)
          /\ resp' = IF jobs' = jobs
                     THEN Reply("retry", 400, "Could not retry job")
                     ELSE Reply("retry", 200, "pending")

(* ------------------------- worker life cycle --------------------------- *)
\* a start() without the test of isRunning: every call runs the recovery
\* and arms a timer
StartAgain ==
  /\ Idle
  /\ UNCHANGED <<dvars, returned, logged, results>>
  /\ UNCHANGED <<jobSeq, notes, lastInsertRowid, now, runs, lastEvent, received,
                 resp, persisted>>
  /\ jobs' = clearOldQueueJobs(resetStaleQueueJobs(jobs, now), now)
  /\ isRunning' = TRUE
  /\ pollInterval' = pollInterval + 1
  /\ UNCHANGED listeners

\* queue-worker.js start()
Start ==
  /\ Idle
  /\ UNCHANGED <<dvars, returned, logged, results>>
  /\ UNCHANGED <<jobSeq, notes, lastInsertRowid, now, runs, lastEvent, received,
                 resp, persisted>>
  /\ IF isRunning
     THEN UNCHANGED <<jobs, isRunning, listeners, pollInterval>>
     ELSE /\ jobs' = clearOldQueueJobs(resetStaleQueueJobs(jobs, now), now)
          /\ isRunning' = TRUE
          /\ pollInterval' = pollInterval + 1
          /\ UNCHANGED listeners

\* queue-worker.js stop()
Stop ==
  /\ Idle
  /\ UNCHANGED <<dvars, returned, logged, results>>
  /\ UNCHANGED <<jobs, jobSeq, notes, lastInsertRowid, now, runs,
                 lastEvent, received, resp, persisted>>
  /\ IF ~isRunning
     THEN UNCHANGED <<isRunning, listeners, pollInterval>>
     ELSE /\ pollInterval' = IF pollInterval > 0 THEN pollInterval - 1 ELSE 0
          /\ isRunning' = FALSE
          /\ UNCHANGED listeners

\* The process exits while work is in flight and is started again: the
\* module state of queue-worker.js is re-initialised, every pending promise
\* is gone, the connection is new, the tables are as they were.
ProcessRestart ==
  /\ Idle
  /\ UNCHANGED <<dvars, returned, logged, results>>
  /\ isRunning' = FALSE
  /\ pollInterval' = 0
  /\ listeners' = << >>
  /\ runs' = [r \in 1..MaxRuns |-> NoRun]
  /\ lastInsertRowid' = 0
  /\ lastEvent' = NoEvent
  /\ received' = << >>
  /\ resp' = NoResp
  /\ UNCHANGED <<jobs, jobSeq, notes, now, persisted>>

\* the frame of addListener and of the function it returns
ListenerFrame ==
  /\ UNCHANGED <<dvars, returned, logged, results>>
  /\ UNCHANGED <<jobs, jobSeq, notes, lastInsertRowid, now, isRunning,
                 pollInterval, runs, lastEvent, received, resp, persisted>>

\* addListener(callback): listeners.add(callback)
AddListener(l) ==
  /\ Idle
  /\ ListenerFrame
  /\ listeners' = IF \E k \in 1..Len(listeners) : listeners[k] = l
                  THEN listeners ELSE Append(listeners, l)

\* the function addListener returned: listeners.delete(callback)
RemoveListener(l) ==
  /\ Idle
  /\ ListenerFrame
  /\ listeners' = SelectSeq(listeners, LAMBDA x : x # l)

(* ------------------------------ pipeline ------------------------------- *)
\* the promise of processSession rejects with message m
RunFails(r, m) ==
  /\ runs' = [runs EXCEPT ![r] = NoRun]
  /\ returned' = NoReturn
  /\ IF runs[r].kind = "worker"
     THEN /\ jobs' = markJobFailed(jobs, runs[r].job, ErrorMessage(m), now)
          /\ lastEvent' = [type |-> "failed", job |-> runs[r].job,
                           error |-> ErrorMessage(m)]
          /\ received' = notifyListeners(listeners, "failed", runs[r].job,
                                         markJobFailed(jobs, runs[r].job,
                                                       ErrorMessage(m), now))
          /\ UNCHANGED resp
     ELSE /\ resp' = Reply("process", 500, m)
          /\ UNCHANGED <<jobs, lastEvent, received>>

\* the promise of processSession resolves with the analysis a and the
\* result res: hasDiagram is !!result.diagramId
RunSucceeds(r, a, res) ==
  /\ runs' = [runs EXCEPT ![r] = NoRun]
  /\ returned' = [settled |-> TRUE, hasDiagram |-> res.diagramId # NoId,
                  customerId |-> res.customerId, diagramId |-> res.diagramId]
  /\ IF runs[r].kind = "worker"
     THEN /\ jobs' = markJobCompleted(jobs, runs[r].job,
                                      Summary(a.callType, a.customerName),
                                      res.customerId, now)
          /\ lastEvent' = [type |-> "completed", job |-> runs[r].job, error |-> NullS]
          /\ received' = notifyListeners(listeners, "completed", runs[r].job,
                                         markJobCompleted(jobs, runs[r].job,
                                                          Summary(a.callType, a.customerName),
                                                          res.customerId, now))
          /\ UNCHANGED resp
     ELSE /\ resp' = Reply("process", 200, runs[r].url)
          /\ UNCHANGED <<jobs, lastEvent, received>>

\* rows getRecentCompleted returns at most (LIMIT 20, scaled to the two rows
\* the table can hold)
RecentLimit == 1

\* the window filled with the oldest terminal rows
getRecentOldest(q) ==
  LET T == WithStatus(q, "completed") \cup WithStatus(q, "failed")
      n == IF Cardinality(T) < RecentLimit THEN Cardinality(T) ELSE RecentLimit
  IN {s \in [1..n -> T] :
        /\ \A k, l \in 1..n : k < l => /\ s[k] # s[l]
                                       /\ q[s[k]].completed_at <= q[s[l]].completed_at
        /\ \A j \in T : (\A k \in 1..n : s[k] # j)
                          => \A k \in 1..n : q[s[k]].completed_at <= q[j].completed_at}

\* queueOps.getRecentCompleted: WHERE status IN ('completed', 'failed')
\* ORDER BY completed_at DESC LIMIT 20.  The result sets the statement can
\* give: rows of equal completed_at come in any order.
getRecentCompleted(q) ==
  LET T == WithStatus(q, "completed") \cup WithStatus(q, "failed")
      n == IF Cardinality(T) < RecentLimit THEN Cardinality(T) ELSE RecentLimit
  IN {s \in [1..n -> T] :
        /\ \A k, l \in 1..n : k < l => /\ s[k] # s[l]
                                       /\ q[s[k]].completed_at >= q[s[l]].completed_at
        /\ \A j \in T : (\A k \in 1..n : s[k] # j)
                          => \A k \in 1..n : q[s[k]].completed_at >= q[j].completed_at}

\* a lookup that finds no processing row
getProcessingNone(q) == {NoId}

\* queueOps.getProcessingJob: WHERE status = 'processing' LIMIT 1, any such
\* row, or undefined
getProcessingJob(q) ==
  IF WithStatus(q, "processing") = {} THEN {NoId} ELSE WithStatus(q, "processing")

\* db.getQueueStatus(): the counts poll() and getStatus() read
getQueueStatus ==
  [pending_count |-> Cardinality(WithStatus(jobs, "pending")),
   processing_count |-> IF WithStatus(jobs, "processing") # {} THEN 1 ELSE 0]

\* poll(): if (status.processing) return.  A property the object does not
\* have reads as undefined, which is falsy.
PollBusy ==
  /\ "processing" \in DOMAIN getQueueStatus
  /\ getQueueStatus["processing"] # 0

\* GET /api/queue/status: res.json(queueWorker.getStatus()), that is
\* { running: isRunning, ...db.getQueueStatus() }
GetStatus ==
  /\ Idle
  /\ UNCHANGED <<dvars, returned, logged, results>>
  /\ UNCHANGED <<jobs, jobSeq, notes, lastInsertRowid, now, isRunning, listeners,
                 pollInterval, runs, lastEvent, received, persisted>>
  /\ \E s \in getRecentCompleted(jobs), c \in getProcessingJob(jobs) :
       resp' = [op |-> "status", code |-> 200, info |-> NullS,
                running |-> isRunning,
                pending_count |-> getQueueStatus.pending_count,
                processing_count |-> getQueueStatus.processing_count,
                current_job |-> c,
                recent_completed |->
                  [k \in 1..Len(s) |-> [id |-> s[k], status |-> jobs[s[k]].status,
                                        error |-> jobs[s[k]].error,
                                        completed_at |-> jobs[s[k]].completed_at]]]

\* processNextJob for the row the store returned, up to the first await
processNextJob(id, w, p) ==
  LET q == markJobProcessing(jobs, id, now)
      u == jobs[id].url
      v == validateSession(u)
      s == validateServices(w, p)
      msg == IF ~v.valid THEN v.error ELSE s.error
  IN IF ~v.valid \/ ~s.valid
     THEN /\ jobs' = markJobFailed(q, id, ErrorMessage(msg), now)
          /\ lastEvent' = [type |-> "failed", job |-> id, error |-> ErrorMessage(msg)]
          /\ received' = notifyListeners(listeners, "failed", id,
                                         markJobFailed(q, id, ErrorMessage(msg), now))
          /\ UNCHANGED runs
     ELSE /\ FreeSlots # {}
          /\ LET r == CHOOSE x \in FreeSlots : \A y \in FreeSlots : x <= y
             IN runs' = [runs EXCEPT ![r] =
                           [kind |-> "worker", job |-> id, url |-> u,
                            stage |-> "fetch", a |-> NoAnalysis,
                            res |-> NoResult]]
          /\ jobs' = q
          /\ UNCHANGED <<lastEvent, received>>

\* setInterval(poll, QUEUE_POLL_INTERVAL_MS) fires
Poll(w, p) ==
  /\ Idle
  /\ UNCHANGED <<dvars, returned, logged, results>>
  /\ pollInterval > 0
  /\ UNCHANGED <<jobSeq, notes, lastInsertRowid, now, isRunning, listeners,
                 pollInterval, resp, persisted>>
  /\ IF PollBusy \/ getNextPending(jobs) = {}
     THEN UNCHANGED <<jobs, runs, lastEvent, received>>
     ELSE \E id \in getNextPending(jobs) : processNextJob(id, w, p)

\* POST /api/process
DirectProcess(u, w, p) ==
  /\ Idle
  /\ UNCHANGED <<dvars, returned, logged, results>>
  /\ UNCHANGED <<jobs, jobSeq, notes, lastInsertRowid, now, isRunning, listeners,
                 pollInterval, lastEvent, received, persisted>>
  /\ IF u = ""
     THEN resp' = Reply("process", 400, "session_url required") /\ UNCHANGED runs
     ELSE IF ~validateSession(u).valid
     THEN resp' = Reply("process", 409, validateSession(u).error) /\ UNCHANGED runs
     ELSE IF ~validateServices(w, p).valid
     THEN resp' = Reply("process", 400, validateServices(w, p).error) /\ UNCHANGED runs
     ELSE /\ FreeSlots # {}
          /\ LET r == CHOOSE x \in FreeSlots : \A y \in FreeSlots : x <= y
             IN runs' = [runs EXCEPT ![r] =
                           [kind |-> "direct", job |-> 0, url |-> u,
                            stage |-> "fetch", a |-> NoAnalysis,
                            res |-> NoResult]]
          /\ UNCHANGED resp

CallTypes == {"technical", "partner", "non-technical"}
\* what the analyzer can answer: the call type, a customer name or null,
\* diagram code or null, and a list of action items (kept as its length)
Analyses == [callType : CallTypes, customerName : {NullS, "Acme"},
             mermaidCode : {NullS, "flowchart"}, actionItems : 0..1]
\* the answers without diagram code and without action items
PlainAnalyses == {a \in Analyses : a.mermaidCode = NullS /\ a.actionItems = 0}
AcmeTechnical == [callType |-> "technical", customerName |-> "Acme",
                  mermaidCode |-> NullS, actionItems |-> 0]

UniqueError == "UNIQUE constraint failed: session_notes.session_url"
ForeignKeyError == "FOREIGN KEY constraint failed"

\* processSession: analysis.customerName || 'Unknown Customer'
CustomerNameOf(a) == IF a.customerName = NullS THEN UnknownName ELSE a.customerName
\* processSession: isUnknown = !analysis.customerName
IsUnknown(a) == a.customerName = NullS

WithinBounds(d) ==
  /\ d.seqs.customers <= MaxCustomers
  /\ d.seqs.diagrams <= MaxDiagrams
  /\ d.seqs.versions <= MaxVersions
  /\ d.seqs.items <= MaxItems

\* ensureCustomer: the outcomes it can have, one per row the search may
\* return first
ensureCustomer(d, res, name) ==
  IF res.customerId # NoId THEN {[db |-> d, res |-> res]}
  ELSE IF searchCustomers(d, name) # {}
  THEN {[db |-> d, res |-> [res EXCEPT !.customerId = c]] : c \in searchCustomers(d, name)}
  ELSE LET c == createCustomer(d, name, name = UnknownName)
       IN {[db |-> c.db, res |-> [res EXCEPT !.customerId = c.id]]}

\* a saveSessionData that never writes the action items
saveSessionDataNoItems(d, u, res, a) ==
  saveSessionNotes(d, u, res.customerId, a.callType)

\* saveSessionData once the note can be written
saveSessionData(d, u, res, a) ==
  LET e == saveSessionNotes(d, u, res.customerId, a.callType)
  IN IF res.customerId # NoId /\ a.actionItems > 0
     THEN saveActionItemsFromSession(e, u, res.customerId, a.actionItems)
     ELSE e

\* a pipeline end whose note write is an upsert over any row of the url
SaveAndReturnUpsert(r, a, res, d) ==
  LET u == runs[r].url
  IN \E e \in ensureCustomer(d, res, CustomerNameOf(a)) :
       LET f == saveSessionData(e.db, u, e.res, a)
       IN /\ WithinBounds(f)
          /\ SetDb(f)
          /\ notes' = [notes EXCEPT ![u] = "processed"]
          /\ lastInsertRowid' = 1
          /\ persisted' = [persisted EXCEPT ![u] = @ + 1]
          /\ RunSucceeds(r, a, e.res)

\* ensureCustomer, saveSessionData, then the return of processSession, on
\* the tables d
SaveAndReturn(r, a, res, d) ==
  LET u == runs[r].url
  IN \E e \in ensureCustomer(d, res, CustomerNameOf(a)) :
       IF notes[u] = "skipped"
       THEN \* notesOps.create on a url that holds a skip placeholder
            /\ RunFails(r, UniqueError)
            /\ WithinBounds(e.db)
            /\ SetDb(e.db)
            /\ lastInsertRowid' = IF e.db.seqs # seqs THEN 1 ELSE lastInsertRowid
            /\ UNCHANGED <<notes, persisted>>
       ELSE IF e.res.customerId \notin DOMAIN e.db.customers
       THEN \* the customer of the result has been deleted in the meantime
            /\ RunFails(r, ForeignKeyError)
            /\ SetDb(e.db)
            /\ lastInsertRowid' = IF e.db.seqs # seqs THEN 1 ELSE lastInsertRowid
            /\ UNCHANGED <<notes, persisted>>
       ELSE LET f == saveSessionData(e.db, u, e.res, a)
            IN /\ WithinBounds(f)
               /\ SetDb(f)
               /\ notes' = [notes EXCEPT ![u] = "processed"]
               /\ lastInsertRowid' = IF notes[u] # "processed" \/ f.seqs # seqs
                                     THEN 1 ELSE lastInsertRowid
               /\ persisted' = [persisted EXCEPT ![u] = @ + 1]
               /\ RunSucceeds(r, a, e.res)

\* wave.fetchTranscript settles: len >= 0 is the length of the transcript,
\* m # NullS the message of the error it threw
FetchReturn(r, len, m) ==
  /\ Idle
  /\ UNCHANGED <<dvars, logged, results>>
  /\ runs[r].stage = "fetch"
  /\ UNCHANGED <<jobSeq, notes, lastInsertRowid, now, isRunning, listeners,
                 pollInterval, persisted>>
  /\ IF m # NullS
     THEN RunFails(r, m)
     ELSE IF TranscriptTooShort(len)
     THEN RunFails(r, "Failed to fetch transcript or transcript too short")
     ELSE /\ runs' = [runs EXCEPT ![r].stage = "analyze"]
          /\ UNCHANGED <<jobs, lastEvent, received, resp, returned>>

\* perplexity.analyzeTranscript settles; createDiagramIfTechnical runs up to
\* its first await, or to its end when there is no diagram to make
AnalyzeReturn(r, a, m) ==
  /\ Idle
  /\ runs[r].stage = "analyze"
  /\ UNCHANGED <<jobSeq, now, isRunning, listeners, pollInterval, logged, results>>
  /\ IF m # NullS
     THEN RunFails(r, m) /\ UNCHANGED <<notes, lastInsertRowid, persisted, dvars>>
     ELSE IF a.callType = "technical" /\ a.mermaidCode # NullS
     THEN /\ runs' = [runs EXCEPT ![r].stage = "validate", ![r].a = a]
          /\ UNCHANGED <<jobs, lastEvent, received, resp, returned, notes,
                         lastInsertRowid, persisted, dvars>>
     ELSE SaveAndReturn(r, a, NoResult, Db)

\* a validation whose answer is not looked at: the diagram is stored
ValidateReturnUnchecked(r, valid) ==
  /\ Idle
  /\ runs[r].kind \in {"worker", "direct"}
  /\ runs[r].stage = "validate"
  /\ UNCHANGED <<jobSeq, now, isRunning, listeners, pollInterval>>
  /\ logged' = IF valid THEN NoLog ELSE InvalidLog
  /\ UNCHANGED results
  /\ \E o \in addDiagramVersion(Db, CustomerNameOf(runs[r].a), runs[r].url,
                                 IsUnknown(runs[r].a), now) :
        /\ WithinBounds(o.db)
        /\ SetDb(o.db)
        /\ runs' = [runs EXCEPT ![r].stage = "render",
                                ![r].res = [customerId |-> o.customerId,
                                            diagramId |-> o.diagramId,
                                            versionId |-> o.versionId]]
  /\ lastInsertRowid' = 1
  /\ UNCHANGED <<jobs, lastEvent, received, resp, returned, notes, persisted>>

\* mermaid.validate settles within createDiagramIfTechnical (it never
\* rejects): an invalid diagram is dropped, a valid one is stored by
\* addDiagramVersion before the render is awaited
ValidateReturn(r, valid) ==
  /\ Idle
  /\ runs[r].kind \in {"worker", "direct"}
  /\ runs[r].stage = "validate"
  /\ UNCHANGED <<jobSeq, now, isRunning, listeners, pollInterval>>
  /\ logged' = IF valid THEN NoLog ELSE InvalidLog
  /\ UNCHANGED results
  /\ IF ~valid
     THEN SaveAndReturn(r, [runs[r].a EXCEPT !.mermaidCode = NullS], NoResult, Db)
     ELSE /\ \E o \in addDiagramVersion(Db, CustomerNameOf(runs[r].a), runs[r].url,
                                        IsUnknown(runs[r].a), now) :
               /\ WithinBounds(o.db)
               /\ SetDb(o.db)
               /\ runs' = [runs EXCEPT ![r].stage = "render",
                                       ![r].res = [customerId |-> o.customerId,
                                                   diagramId |-> o.diagramId,
                                                   versionId |-> o.versionId]]
          /\ lastInsertRowid' = 1
          /\ UNCHANGED <<jobs, lastEvent, received, resp, returned, notes, persisted>>

\* a pipeline end that takes the run's version back when the note cannot be
\* written
RenderReturnRollback(r, ok) ==
  /\ Idle
  /\ runs[r].kind \in {"worker", "direct"}
  /\ runs[r].stage = "render"
  /\ UNCHANGED <<jobSeq, now, isRunning, listeners, pollInterval>>
  /\ logged' = IF ok THEN NoLog ELSE RenderLog
  /\ UNCHANGED results
  /\ IF isSessionSkipped(runs[r].url)
     THEN /\ RunFails(r, UniqueError)
          /\ SetDb(deleteVersion(Db, runs[r].res.versionId))
          /\ UNCHANGED <<notes, lastInsertRowid, persisted>>
     ELSE SaveAndReturn(r, runs[r].a, runs[r].res,
                        IF ok THEN updateVersionPngPath(Db, runs[r].res.versionId, "png")
                        ELSE Db)

\* a render whose rejection is not caught and rejects processSession
RenderReturnFatal(r, ok) ==
  /\ Idle
  /\ runs[r].kind \in {"worker", "direct"}
  /\ runs[r].stage = "render"
  /\ UNCHANGED <<jobSeq, now, isRunning, listeners, pollInterval>>
  /\ logged' = IF ok THEN NoLog ELSE RenderLog
  /\ UNCHANGED results
  /\ IF ok
     THEN SaveAndReturn(r, runs[r].a, runs[r].res,
                        updateVersionPngPath(Db, runs[r].res.versionId, "png"))
     ELSE RunFails(r, RenderLog) /\ UNCHANGED <<notes, lastInsertRowid, persisted, dvars>>

\* mermaid.renderToPng settles within createDiagramIfTechnical: a rejection
\* is caught and logged
RenderReturn(r, ok) ==
  /\ Idle
  /\ runs[r].kind \in {"worker", "direct"}
  /\ runs[r].stage = "render"
  /\ UNCHANGED <<jobSeq, now, isRunning, listeners, pollInterval>>
  /\ logged' = IF ok THEN NoLog ELSE RenderLog
  /\ UNCHANGED results
  /\ SaveAndReturn(r, runs[r].a, runs[r].res,
                   IF ok THEN updateVersionPngPath(Db, runs[r].res.versionId, "png")
                   ELSE Db)

\* a skip that does not look for a processed note: INSERT OR REPLACE puts the
\* placeholder in its place
SkipUnchecked(u) ==
  /\ Idle
  /\ UNCHANGED <<customers, diagrams, versions, dsessions, action_items, seqs,
                 returned, logged, results>>
  /\ UNCHANGED <<jobs, jobSeq, now, isRunning, listeners, pollInterval, runs, lastEvent, received,
                 persisted>>
  /\ IF u = ""
     THEN resp' = Reply("skip", 400, "session_url required")
          /\ UNCHANGED <<notes, lastInsertRowid, noteInfo>>
     ELSE /\ notes' = [notes EXCEPT ![u] = "skipped"]
          /\ noteInfo' = [noteInfo EXCEPT ![u] = SkipInfo]
          /\ lastInsertRowid' = 1
          /\ resp' = Reply("skip", 200, u)

\* POST /api/skip
Skip(u) ==
  /\ Idle
  /\ UNCHANGED <<customers, diagrams, versions, dsessions, action_items, seqs,
                 returned, logged, results>>
  /\ UNCHANGED <<jobs, jobSeq, now, isRunning, listeners, pollInterval, runs, lastEvent, received,
                 persisted>>
  /\ IF u = ""
     THEN resp' = Reply("skip", 400, "session_url required")
          /\ UNCHANGED <<notes, lastInsertRowid, noteInfo>>
     ELSE IF isSessionProcessed(u)
     THEN resp' = Reply("skip", 409, "Session already processed")
          /\ UNCHANGED <<notes, lastInsertRowid, noteInfo>>
     ELSE /\ notes' = [notes EXCEPT ![u] = "skipped"]
          /\ noteInfo' = [noteInfo EXCEPT ![u] = SkipInfo]
          /\ lastInsertRowid' = 1
          /\ resp' = Reply("skip", 200, u)

\* POST /api/unskip
Unskip(u) ==
  /\ Idle
  /\ UNCHANGED <<customers, diagrams, versions, dsessions, action_items, seqs,
                 returned, logged, results>>
  /\ UNCHANGED <<jobs, jobSeq, lastInsertRowid, now, isRunning, listeners,
                 pollInterval, runs, lastEvent, received, persisted>>
  /\ IF u = ""
     THEN resp' = Reply("unskip", 400, "session_url required")
          /\ UNCHANGED <<notes, noteInfo>>
     ELSE /\ notes' = [notes EXCEPT ![u] = IF isSessionSkipped(u) THEN NoNote ELSE @]
          /\ noteInfo' = [noteInfo EXCEPT ![u] = IF isSessionSkipped(u) THEN NoInfo ELSE @]
          /\ resp' = Reply("unskip", 200, u)

\* the event-loop turn ends: the response has been written to the client and
\* notifyListeners has returned
EndTurn ==
  /\ ~Idle
  /\ UNCHANGED dvars
  /\ returned' = NoReturn
  /\ logged' = NoLog
  /\ results' = NoCounts
  /\ resp' = NoResp
  /\ lastEvent' = NoEvent
  /\ received' = << >>
  /\ UNCHANGED <<jobs, jobSeq, notes, lastInsertRowid, now, isRunning, listeners,
                 pollInterval, runs, persisted>>

(* ------------------- routes on customers and diagrams ------------------ *)
\* the frame of a handler that touches only the tables and the response
RouteFrame ==
  UNCHANGED <<jobs, jobSeq, notes, now, isRunning, listeners, pollInterval, lastEvent, received,
              persisted, returned, logged, results>>

FirstFree == CHOOSE x \in FreeSlots : \A y \in FreeSlots : x <= y

\* POST /api/customers (POST /customer/new is the same with is_unknown false)
CreateCustomer(name, isUnknown) ==
  /\ Idle
  /\ RouteFrame
  /\ UNCHANGED runs
  /\ IF name = ""
     THEN /\ resp' = Reply("customer", 400, "Name is required")
          /\ UNCHANGED <<dvars, lastInsertRowid>>
     ELSE LET c == createCustomer(Db, name, isUnknown)
          IN /\ WithinBounds(c.db)
             /\ SetDb(c.db)
             /\ lastInsertRowid' = 1
             /\ resp' = Reply("customer", 201, name)

\* POST /customer/:id/save up to the await of mermaid.validate
SaveRequest(c, code) ==
  /\ Idle
  /\ RouteFrame
  /\ UNCHANGED <<dvars, lastInsertRowid>>
  /\ IF c \notin DOMAIN customers
     THEN resp' = Reply("save", 404, "Customer not found") /\ UNCHANGED runs
     ELSE IF code = ""
     THEN resp' = Reply("save", 400, "Mermaid code is required") /\ UNCHANGED runs
     ELSE /\ FreeSlots # {}
          /\ runs' = [runs EXCEPT ![FirstFree] =
                        NewRun("save", 0, NullS, "validate", NoAnalysis,
                               [NoResult EXCEPT !.customerId = c])]
          /\ UNCHANGED resp

\* POST /customer/:id/save from the answer of mermaid.validate to the await
\* of mermaid.renderToPng.  When the customer has been deleted in the
\* meantime createDiagram violates the foreign key and the handler's promise
\* rejects with nobody to catch it: nothing is written and the process ends
\* on the unhandled rejection.
SaveValidateReturn(r, valid) ==
  /\ Idle
  /\ runs[r].kind = "save"
  /\ runs[r].stage = "validate"
  /\ LET c == runs[r].res.customerId
     IN IF ~valid
        THEN /\ resp' = Reply("save", 400, "Invalid Mermaid syntax")
             /\ runs' = [runs EXCEPT ![r] = NoRun]
             /\ RouteFrame
             /\ UNCHANGED <<dvars, lastInsertRowid>>
        ELSE IF c \notin DOMAIN customers
        THEN ProcessRestart
        ELSE /\ RouteFrame
             /\ \E g \in IF getDiagramByCustomer(Db, c) = {}
                         THEN {createDiagram(Db, c, now)}
                         ELSE {[db |-> Db, id |-> x] : x \in getDiagramByCustomer(Db, c)} :
                  LET v == createVersion(g.db, g.id)
                  IN /\ WithinBounds(v.db)
                     /\ SetDb(v.db)
                     /\ lastInsertRowid' = 1
                     /\ runs' = [runs EXCEPT ![r].stage = "render",
                                             ![r].res.diagramId = g.id,
                                             ![r].res.versionId = v.id]
                     /\ UNCHANGED resp

\* POST /customer/:id/save once mermaid.renderToPng has settled
SaveRenderReturn(r, ok) ==
  /\ Idle
  /\ runs[r].kind = "save"
  /\ runs[r].stage = "render"
  /\ RouteFrame
  /\ UNCHANGED lastInsertRowid
  /\ runs' = [runs EXCEPT ![r] = NoRun]
  /\ IF ok
     THEN /\ SetDb(updateVersionPngPath(Db, runs[r].res.versionId, "png"))
          /\ resp' = Reply("save", 200, NullS)
     ELSE /\ UNCHANGED dvars
          /\ resp' = Reply("save", 500, "Failed to render diagram")

\* POST /customer/:id/version/:version/delete
DeleteVersion(c, n) ==
  /\ Idle
  /\ RouteFrame
  /\ UNCHANGED <<runs, lastInsertRowid>>
  /\ IF c \notin DOMAIN customers
     THEN resp' = Reply("version", 404, "Customer not found") /\ UNCHANGED dvars
     ELSE IF getDiagramByCustomer(Db, c) = {}
     THEN resp' = Reply("version", 404, "No diagram found") /\ UNCHANGED dvars
     ELSE \E g \in getDiagramByCustomer(Db, c) :
            IF getVersion(Db, g, n) = {}
            THEN resp' = Reply("version", 404, "Version not found") /\ UNCHANGED dvars
            ELSE \E v \in getVersion(Db, g, n) :
                   /\ SetDb(deleteVersion(Db, v))
                   /\ resp' = Reply("version", 200, NullS)

\* POST /customer/:id/assign: existing = 0 and name = "" stand for a body
\* without that field
Assign(c, existing, name) ==
  /\ Idle
  /\ UNCHANGED <<jobSeq, notes, now, isRunning, listeners, pollInterval, lastEvent,
                 received, persisted, returned, logged, results>>
  /\ UNCHANGED <<runs, lastInsertRowid>>
  /\ IF c \notin DOMAIN customers
     THEN resp' = Reply("assign", 404, "Customer not found")
          /\ UNCHANGED <<dvars, jobs>>
     ELSE IF existing # NoId
     THEN IF existing \notin DOMAIN customers
          THEN resp' = Reply("assign", 404, "Target customer not found")
               /\ UNCHANGED <<dvars, jobs>>
          ELSE /\ \E d \in IF getDiagramByCustomer(Db, c) = {} THEN {Db}
                           ELSE {updateDiagramCustomer(Db, g, existing) :
                                   g \in getDiagramByCustomer(Db, c)} :
                    SetDb(deleteCustomer(d, c))
               /\ jobs' = customerDeleted(jobs, c)
               /\ resp' = Reply("assign", 200, NullS)
     ELSE IF name # ""
     THEN /\ SetDb(updateCustomer(Db, c, name, FALSE))
          /\ resp' = Reply("assign", 200, NullS)
          /\ UNCHANGED jobs
     ELSE resp' = Reply("assign", 400, "Name or existing_customer_id required")
          /\ UNCHANGED <<dvars, jobs>>

\* the customer a name resolves to in the routes that search, then create
FindOrCreate(d, name) ==
  IF searchCustomers(d, name) # {}
  THEN {[db |-> d, id |-> c] : c \in searchCustomers(d, name)}
  ELSE {createCustomer(d, name, FALSE)}

\* POST /api/session/update-customer
UpdateSessionCustomer(u, name) ==
  /\ Idle
  /\ RouteFrame
  /\ UNCHANGED runs
  /\ IF u = "" \/ name = ""
     THEN /\ resp' = Reply("update-customer", 400, "session_url and customer_name required")
          /\ UNCHANGED <<dvars, lastInsertRowid>>
     ELSE \E c \in FindOrCreate(Db, name) :
            LET d == IF notes[u] # NoNote THEN updateSessionCustomer(c.db, u, c.id)
                     ELSE c.db
                moves == notes[u] # NoNote /\ d.noteInfo[u].call_type = "technical"
                         /\ getDiagramSessionByUrl(d, u) # {}
            IN /\ WithinBounds(d)
               /\ \E e \in IF moves
                           THEN {updateDiagramCustomer(d, x.diagram_id, c.id) :
                                   x \in getDiagramSessionByUrl(d, u)}
                           ELSE {d} : SetDb(e)
               /\ lastInsertRowid' = IF d.seqs # seqs THEN 1 ELSE lastInsertRowid
               /\ resp' = Reply("update-customer", 200, name)

\* POST /api/diagrams up to the await of mermaid.validate; u = NullS is a
\* body without session_url
PostDiagram(name, code, u, isUnknown) ==
  /\ Idle
  /\ RouteFrame
  /\ UNCHANGED <<dvars, lastInsertRowid>>
  /\ IF name = ""
     THEN resp' = Reply("diagrams", 400, "customer_name is required") /\ UNCHANGED runs
     ELSE IF code = ""
     THEN resp' = Reply("diagrams", 400, "mermaid_code is required") /\ UNCHANGED runs
     ELSE IF u # NullS /\ getDiagramSessionByUrl(Db, u) # {}
     THEN resp' = Reply("diagrams", 409, "Session already processed") /\ UNCHANGED runs
     ELSE /\ FreeSlots # {}
          /\ runs' = [runs EXCEPT ![FirstFree] =
                        NewRun(IF isUnknown THEN "api-unknown" ELSE "api", 0, u,
                               "validate",
                               [NoAnalysis EXCEPT !.customerName = name], NoResult)]
          /\ UNCHANGED resp

\* POST /api/diagrams from the answer of mermaid.validate to the await of
\* mermaid.renderToPng
ApiValidateReturn(r, valid) ==
  /\ Idle
  /\ runs[r].kind \in {"api", "api-unknown"}
  /\ runs[r].stage = "validate"
  /\ RouteFrame
  /\ IF ~valid
     THEN /\ resp' = Reply("diagrams", 400, "Invalid Mermaid syntax")
          /\ runs' = [runs EXCEPT ![r] = NoRun]
          /\ UNCHANGED <<dvars, lastInsertRowid>>
     ELSE /\ \E o \in addDiagramVersion(Db, runs[r].a.customerName, runs[r].url,
                                        runs[r].kind = "api-unknown", now) :
               /\ WithinBounds(o.db)
               /\ SetDb(o.db)
               /\ runs' = [runs EXCEPT ![r].stage = "render",
                                       ![r].res = [customerId |-> o.customerId,
                                                   diagramId |-> o.diagramId,
                                                   versionId |-> o.versionId]]
          /\ lastInsertRowid' = 1
          /\ UNCHANGED resp

\* POST /api/diagrams once mermaid.renderToPng has settled: a rejection is
\* caught and logged
ApiRenderReturn(r, ok) ==
  /\ Idle
  /\ runs[r].kind \in {"api", "api-unknown"}
  /\ runs[r].stage = "render"
  /\ RouteFrame
  /\ UNCHANGED lastInsertRowid
  /\ runs' = [runs EXCEPT ![r] = NoRun]
  /\ SetDb(IF ok THEN updateVersionPngPath(Db, runs[r].res.versionId, "png") ELSE Db)
  /\ resp' = Reply("diagrams", 201, NullS)

\* DELETE /api/diagrams/:id/keep-notes
KeepNotes(g) ==
  /\ Idle
  /\ RouteFrame
  /\ UNCHANGED <<runs, lastInsertRowid>>
  /\ IF g \notin DOMAIN diagrams
     THEN resp' = Reply("keep-notes", 404, "Diagram not found") /\ UNCHANGED dvars
     ELSE /\ SetDb(deleteDiagramKeepActionItems(Db, g))
          /\ resp' = Reply("keep-notes", 200, NullS)

(* ------------------------ routes on action items ----------------------- *)
\* POST /api/action-items/:id/toggle
Toggle(i) ==
  /\ Idle
  /\ RouteFrame
  /\ UNCHANGED <<runs, lastInsertRowid>>
  /\ IF i \notin DOMAIN action_items
     THEN resp' = Reply("toggle", 404, "Action item not found") /\ UNCHANGED dvars
     ELSE /\ SetDb(toggleComplete(Db, i, now))
          /\ resp' = Reply("toggle", 200, NullS)

\* POST /api/action-items/:id/move: c = 0 and name = "" stand for a body
\* without that field
Move(i, c, name) ==
  /\ Idle
  /\ RouteFrame
  /\ UNCHANGED runs
  /\ IF i \notin DOMAIN action_items
     THEN /\ resp' = Reply("move", 404, "Action item not found")
          /\ UNCHANGED <<dvars, lastInsertRowid>>
     ELSE IF c = NoId /\ name = ""
     THEN /\ resp' = Reply("move", 400, "customer_id or customer_name required")
          /\ UNCHANGED <<dvars, lastInsertRowid>>
     ELSE \E t \in IF c # NoId THEN {[db |-> Db, id |-> c]} ELSE FindOrCreate(Db, name) :
            /\ WithinBounds(t.db)
            /\ lastInsertRowid' = IF t.db.seqs # seqs THEN 1 ELSE lastInsertRowid
            /\ IF t.id \notin DOMAIN t.db.customers
               THEN /\ resp' = Reply("move", 404, "Target customer not found")
                    /\ SetDb(t.db)
               ELSE /\ SetDb(moveActionItemToCustomer(t.db, i, t.id))
                    /\ resp' = Reply("move", 200, NullS)

\* PUT /api/action-items/:id: text = "" stands for a body without item
Edit(i, text) ==
  /\ Idle
  /\ RouteFrame
  /\ UNCHANGED <<runs, lastInsertRowid>>
  /\ IF i \notin DOMAIN action_items
     THEN resp' = Reply("edit", 404, "Action item not found") /\ UNCHANGED dvars
     ELSE /\ SetDb(updateActionItem(Db, i, IF text = "" THEN action_items[i].text ELSE text))
          /\ resp' = Reply("edit", 200, NullS)

(* --------------------------- specifications --------------------------- *)
\* Spec: two sessions, the queue endpoints, the worker and the pipeline it
\* runs, stop/start and a restart of the process.
QueueApi(urls, titles) ==
  \/ \E u \in urls \cup {""}, t \in titles : Enqueue(u, t)
  \/ \E s \in BulkInputs(urls), limit \in 0..MaxBulk, t \in titles : EnqueueBulk(s, limit, t)
  \/ \E id \in 1..MaxJobs + 1 : Cancel(id)
  \/ \E id \in 1..MaxJobs + 1 : Retry(id)

Lifecycle == Start \/ Stop \/ ProcessRestart

Worker(ready, lens, errs, analyses) ==
  \/ \E w \in ready, p \in ready : Poll(w, p)
  \/ \E r \in Active, len \in lens, m \in errs \cup {NullS} : FetchReturn(r, len, m)
  \/ \E r \in Active, a \in analyses, m \in errs \cup {NullS} : AnalyzeReturn(r, a, m)

Next ==
  \/ EndTurn
  \/ QueueApi(URLs, {"tA"})
  \/ Lifecycle
  \/ Worker({TRUE}, {99, 100}, CollabErrors,
            {AcmeTechnical})

Spec == Init /\ [][Next]_vars

\* SpecApi: one session with every input of the queue endpoints: two titles,
\* the clock, every answer and every kind of error of the collaborators.
NextApi ==
  \/ EndTurn
  \/ Tick
  \/ QueueApi({"u1"}, Titles)
  \/ Lifecycle
  \/ Worker(BOOLEAN, TranscriptLens, CollabErrors,
            {a \in PlainAnalyses : a.customerName = "Acme"})

SpecApi == Init /\ [][NextApi]_vars

\* SpecRecovery: two sessions over a clock long enough for the startup prune;
\* jobs are enqueued one by one and never cancelled or retried.
NextRecovery ==
  \/ EndTurn
  \/ Tick
  \/ \E u \in URLs : Enqueue(u, "tA")
  \/ Lifecycle
  \/ Worker({TRUE}, {100}, {"upstream"},
            {AcmeTechnical})

SpecRecovery == Init /\ [][NextRecovery]_vars

\* SpecSession: one session that is queued under two titles while the
\* interactive endpoints (process, skip, unskip) work on the same session.
Interactive(urls) ==
  \/ \E u \in urls \cup {""}, w, p \in BOOLEAN : DirectProcess(u, w, p)
  \/ \E u \in urls \cup {""} : Skip(u)
  \/ \E u \in urls \cup {""} : Unskip(u)

NextSession ==
  \/ EndTurn
  \/ QueueApi({"u1"}, Titles)
  \/ Lifecycle
  \/ Interactive({"u1"})
  \/ Worker({TRUE}, {99, 100}, {"upstream"},
            {AcmeTechnical})

SpecSession == Init /\ [][NextSession]_vars

\* SpecDiagrams: one session and the ways a diagram gets versions and
\* owners: the editor, POST /api/diagrams, the pipeline run by POST
\* /api/process, version deletion, assign and update-customer.  A request
\* that awaits a collaborator starts when no other one is in flight; the
\* handlers that do not await run at any time.
Editor ==
  \/ \E c \in 1..MaxCustomers, code \in {"", "flowchart"} :
       Active = {} /\ SaveRequest(c, code)
  \/ \E r \in Active, valid \in BOOLEAN : SaveValidateReturn(r, valid)
  \/ \E r \in Active, ok \in BOOLEAN : SaveRenderReturn(r, ok)
  \/ \E c \in 1..MaxCustomers, n \in 1..MaxVersions : DeleteVersion(c, n)

DiagramApi(urls, names) ==
  \/ \E name \in names \cup {""}, code \in {"", "flowchart"},
        u \in urls \cup {NullS}, isUnknown \in BOOLEAN :
       Active = {} /\ PostDiagram(name, code, u, isUnknown)
  \/ \E r \in Active, valid \in BOOLEAN : ApiValidateReturn(r, valid)
  \/ \E r \in Active, ok \in BOOLEAN : ApiRenderReturn(r, ok)

Customers(urls, names) ==
  \/ \E name \in names \cup {""}, isUnknown \in BOOLEAN : CreateCustomer(name, isUnknown)
  \/ \E c \in 1..MaxCustomers, existing \in 0..MaxCustomers, name \in names \cup {""} :
       Assign(c, existing, name)
  \/ \E u \in urls \cup {""}, name \in names \cup {""} : UpdateSessionCustomer(u, name)

\* the pipeline started by POST /api/process with collaborators that answer
DirectPipeline(urls, analyses) ==
  \/ \E u \in urls : Active = {} /\ DirectProcess(u, TRUE, TRUE)
  \/ \E r \in Active : FetchReturn(r, MinTranscriptLen, NullS)
  \/ \E r \in Active, a \in analyses : AnalyzeReturn(r, a, NullS)
  \/ \E r \in Active, valid \in BOOLEAN : ValidateReturn(r, valid)
  \/ \E r \in Active, ok \in BOOLEAN : RenderReturn(r, ok)

NextDiagrams ==
  \/ EndTurn
  \/ Editor
  \/ DiagramApi({"u1"}, {"Acme"})
  \/ Customers({"u1"}, {"Acme"})
  \/ DirectPipeline({"u1"}, {a \in Analyses : a.callType = "technical"
                                              /\ a.mermaidCode # NullS
                                              /\ a.actionItems = 0})

SpecDiagrams == Init /\ [][NextDiagrams]_vars

\* SpecPipeline: two queued sessions run by the worker through every stage
\* of the pipeline, with every answer of the analyzer, of the diagram
\* validation and of the render, while sessions may be skipped.
Diagramming ==
  \/ \E r \in Active, valid \in BOOLEAN : ValidateReturn(r, valid)
  \/ \E r \in Active, ok \in BOOLEAN : RenderReturn(r, ok)

NextPipeline ==
  \/ EndTurn
  \/ \E u \in URLs : Enqueue(u, "tA")
  \/ Start
  \/ Worker(BOOLEAN, TranscriptLens, CollabErrors, Analyses)
  \/ Diagramming
  \/ \E u \in URLs : Skip(u)

SpecPipeline == Init /\ [][NextPipeline]_vars

\* SpecItems: two technical sessions processed on request, each leaving a
\* diagram and one action item, and the routes that toggle, move and edit
\* the items and delete a diagram keeping its notes.
ItemAnalyses == {a \in Analyses : /\ a.callType = "technical"
                                  /\ a.mermaidCode # NullS
                                  /\ a.actionItems = 1}

NextItems ==
  \/ EndTurn
  \/ Tick
  \/ DirectPipeline(URLs, ItemAnalyses)
  \/ \E g \in 1..MaxDiagrams : KeepNotes(g)
  \/ \E i \in 1..MaxItems : Toggle(i)
  \/ \E i \in 1..MaxItems, c \in 0..MaxCustomers, name \in {"", "Acme"} : Move(i, c, name)
  \/ \E i \in 1..MaxItems, text \in ItemTexts \cup {""} : Edit(i, text)

SpecItems == Init /\ [][NextItems]_vars

\* SpecReprocess: POST /api/process for sessions that may already be in the
\* pipeline: the requests overlap, and the analyzer answers with or without
\* an action item.
NextReprocess ==
  \/ EndTurn
  \/ \E u \in URLs : DirectProcess(u, TRUE, TRUE)
  \/ \E r \in Active : FetchReturn(r, MinTranscriptLen, NullS)
  \/ \E r \in Active, a \in {x \in Analyses : x.mermaidCode = NullS /\ x.customerName = "Acme"} :
       AnalyzeReturn(r, a, NullS)

SpecReprocess == Init /\ [][NextReprocess]_vars

\* SpecBulk: bulk requests of up to three sessions over a store in which a
\* session may be processed, skipped, queued or failed, and a connection
\* that may be new.
BulkLen == 3
\* the limit of the request body: 0 stands for a body without limit
BulkLimits == {0, 2}

NextBulk ==
  \/ EndTurn
  \/ \E s \in SessionLists(URLs, BulkLen), limit \in BulkLimits : EnqueueBulk(s, limit, "tA")
  \/ \E u \in URLs : Active = {} /\ DirectProcess(u, TRUE, TRUE)
  \/ \E r \in Active : FetchReturn(r, MinTranscriptLen, NullS)
  \/ \E r \in Active, a \in {x \in Analyses : /\ x.callType = "partner"
                                              /\ x.customerName = "Acme"
                                              /\ x.actionItems = 0} :
       AnalyzeReturn(r, a, NullS)
  \/ \E u \in URLs : Skip(u)
  \/ Start
  \/ Poll(FALSE, TRUE)
  \/ ProcessRestart

SpecBulk == Init /\ [][NextBulk]_vars

\* SpecStatus: two sessions are enqueued, run and retried while the clock
\* advances, and the status of the queue is read at any time.
NextStatus ==
  \/ EndTurn
  \/ Tick
  \/ \E u \in URLs : Enqueue(u, "tA")
  \/ \E id \in 1..MaxJobs : Retry(id)
  \/ Start
  \/ Worker({TRUE}, {100}, {"upstream"}, {AcmeTechnical})
  \/ GetStatus

SpecStatus == Init /\ [][NextStatus]_vars

\* SpecListeners: callbacks are registered and unregistered while the
\* worker, which may be stopped and started again, runs two queued sessions.
NextListeners ==
  \/ EndTurn
  \/ \E u \in URLs : Enqueue(u, "tA")
  \/ Start
  \/ Stop
  \/ Worker({TRUE}, {100}, {"upstream"}, {AcmeTechnical})
  \/ \E l \in Listeners : AddListener(l)
  \/ \E l \in Listeners : RemoveListener(l)

SpecListeners == Init /\ [][NextListeners]_vars

\* SpecLive: two sessions are enqueued once each and the worker, once
\* started, is not stopped.  The timer keeps firing whatever requests
\* arrive, every collaborator call of a run settles, and every event-loop
\* turn ends.
LiveAnalyses == {a \in Analyses : /\ a.callType = "technical"
                                  /\ a.customerName = "Acme"
                                  /\ a.actionItems = 0}

RunSettles(r) ==
  \/ \E len \in {99, 100}, m \in {"upstream", NullS} : FetchReturn(r, len, m)
  \/ \E a \in LiveAnalyses, m \in {"upstream", NullS} : AnalyzeReturn(r, a, m)
  \/ \E valid \in BOOLEAN : ValidateReturn(r, valid)
  \/ \E ok \in BOOLEAN : RenderReturn(r, ok)

NextLive ==
  \/ EndTurn
  \/ \E u \in URLs : RowOfUrl(jobs, u) = {} /\ Enqueue(u, "tA")
  \/ Start
  \/ Poll(TRUE, TRUE)
  \/ \E r \in 1..MaxRuns : RunSettles(r)

Fairness ==
  /\ WF_vars(EndTurn)
  /\ SF_vars(Poll(TRUE, TRUE))
  /\ \A r \in 1..MaxRuns : SF_vars(RunSettles(r))

SpecLive == Init /\ [][NextLive]_vars /\ Fairness

\* SpecNotes: two sessions run by a worker that may be stopped and started
\* again, while sessions are skipped and unskipped and customers are
\* created, renamed, merged and deleted.
NextNotes ==
  \/ EndTurn
  \/ \E u \in URLs : Active = {} /\ Enqueue(u, "tA")
  \/ Start
  \/ Stop
  \/ Worker({TRUE}, {100}, {"upstream"}, {a \in PlainAnalyses : a.callType = "technical"})
  \/ \E u \in URLs : Skip(u)
  \/ \E u \in URLs : Unskip(u)
  \/ Active = {} /\ Customers({"u1"}, {"Acme"})

SpecNotes == Init /\ [][NextNotes]_vars

(* ------------------------------- claims ------------------------------- *)
\* C1: at every instant at most one job row has status processing, whatever
\* the interleaving of polls, enqueues, cancels, retries and stop/start.
C1_AtMostOneProcessing == Cardinality(WithStatus(jobs, "processing")) <= 1

\* C2: at most one processSession invocation started by the worker is in
\* flight at any instant, also when stop() and start() are called while a
\* job is being processed.
C2_OneWorkerRunInFlight == Cardinality(WorkerRuns) <= 1

\* C3: for every session url at most one pipeline run ever writes the
\* SessionNote, whatever the interleaving of worker runs, retries and direct
\* POST /api/process requests for that url.
C3_PersistedAtMostOnce == \A u \in URLs : persisted[u] <= 1

\* the job rows of url u whose status is in S
JobsOf(u, S) == {i \in Ids : jobs[i].url = u /\ jobs[i].status \in S}

\* C4 (as stated): POST /api/queue for a url that has a pending or
\* processing job answers 409 "Session already queued" and changes no row.
C4_QueuedRejectedAsQueued ==
  [][\A u \in URLs, t \in Titles :
       (JobsOf(u, {"pending", "processing"}) # {} /\ Enqueue(u, t))
         => /\ resp' = Reply("enqueue", 409, "Session already queued")
            /\ jobs' = jobs]_vars

\* C4 (amended): POST /api/queue for a url that has a pending or processing
\* job answers 409 and changes no row and creates none; the reason is
\* "Session already queued" when the session has no note, "Session already
\* processed" when it has a processed note and "Session was skipped" when it
\* has a skip placeholder.
C4_QueuedRejected ==
  [][\A u \in URLs, t \in Titles :
       (JobsOf(u, {"pending", "processing"}) # {} /\ Enqueue(u, t))
         => /\ resp'.code = 409
            /\ resp'.info = (IF notes[u] = "processed" THEN "Session already processed"
                             ELSE IF notes[u] = "skipped" THEN "Session was skipped"
                             ELSE "Session already queued")
            /\ jobs' = jobs
            /\ jobSeq' = jobSeq]_vars

\* an enqueue has just been rejected as already queued while the job of the
\* url is being processed
C4_Witness ==
  /\ resp = Reply("enqueue", 409, "Session already queued")
  /\ JobsOf("u1", {"processing"}) # {}

\* the row of job i after the upsert has reset it for title t
ResetRow(i, t) ==
  [jobs[i] EXCEPT !.status = "pending", !.title = t, !.error = NullS,
                  !.started_at = NullT, !.completed_at = NullT]

\* C5 (as stated): POST /api/queue for a url whose job is failed reuses the
\* row: same id, pending, the new title, error and started/completed
\* timestamps cleared, no row added or removed.
C5_FailedRowReused ==
  [][\A u \in URLs, t \in Titles :
       (JobsOf(u, {"failed"}) # {} /\ Enqueue(u, t))
         => /\ DOMAIN jobs' = DOMAIN jobs
            /\ \A i \in Ids :
                 jobs'[i] = IF jobs[i].url = u THEN ResetRow(i, t) ELSE jobs[i]]_vars

\* C5 (amended): for a session that is neither processed nor skipped the
\* failed row is reused as stated; for a session that has a processed note or
\* a skip placeholder the request is rejected with 409 and the row stays
\* failed.
C5_FailedRowReusedUnlessNoted ==
  [][\A u \in URLs, t \in Titles :
       (JobsOf(u, {"failed"}) # {} /\ Enqueue(u, t))
         => IF notes[u] = NoNote
            THEN /\ DOMAIN jobs' = DOMAIN jobs
                 /\ jobSeq' = jobSeq
                 /\ \A i \in Ids :
                      jobs'[i] = IF jobs[i].url = u THEN ResetRow(i, t) ELSE jobs[i]
            ELSE /\ resp'.code = 409
                 /\ jobs' = jobs]_vars

\* an enqueue has reset the failed row of u1 under the second title: the
\* answer "Session already in queue" is given only after the upsert ran
\* without inserting, and a row it leaves pending was failed before
C5_Witness ==
  /\ resp = Reply("enqueue", 409, "Session already in queue")
  /\ \E i \in Ids : jobs[i] = [NewRow("u1", "tB", jobs[i].created_at) EXCEPT
                                  !.result_summary = jobs[i].result_summary,
                                  !.customer_id = jobs[i].customer_id]

\* C6: jobs are dequeued in the order they were enqueued (ids are handed out
\* in that order) and one after the other: the worker never marks a job
\* processing while a job enqueued before it is still pending or processing,
\* also when both were created by one bulk request and carry the same
\* created_at.
C6_Fifo ==
  [][\A a, b \in Ids :
       (/\ a < b
        /\ jobs[a].status \in {"pending", "processing"}
        /\ jobs[b].status = "pending"
        /\ b \in DOMAIN jobs')
         => jobs'[b].status # "processing"]_vars

\* the step is a start() that found the worker stopped
WorkerStarts == ~isRunning /\ isRunning'

OldTerminal(i) ==
  /\ jobs[i].status \in {"completed", "failed"}
  /\ jobs[i].completed_at # NullT
  /\ jobs[i].completed_at < now - PruneAge

C8_CancelOnlyPending ==
  [][/\ \A id \in 1..MaxJobs + 1 :
          Cancel(id) =>
            IF id \notin Ids
            THEN resp'.code = 404 /\ jobs' = jobs
            ELSE IF jobs[id].status = "pending"
            THEN /\ resp'.code = 200
                 /\ DOMAIN jobs' = Ids \ {id}
                 /\ \A j \in DOMAIN jobs' : jobs'[j] = jobs[j]
            ELSE resp'.code = 400 /\ jobs' = jobs
     /\ resp'.op = "cancel" =>
          \A i \in Ids : i \notin DOMAIN jobs' => jobs[i].status = "pending"
     /\ \A i \in Ids : jobs[i].status = "processing" => i \in DOMAIN jobs']_vars

\* a cancel of the job the worker is processing has just been refused
C8_Witness ==
  /\ resp = Reply("cancel", 400, "processing")
  /\ \E r \in WorkerRuns :
       runs[r].job \in Ids /\ jobs[runs[r].job].status = "processing"

\* C9: POST /api/queue/:id/retry returns a failed job to pending with the
\* same id and url, error and started/completed timestamps cleared (200); for
\* a pending, processing or completed job it answers 400 and for an unknown
\* id 404, changing nothing.
C9_RetryOnlyFailed ==
  [][\A id \in 1..MaxJobs + 1 :
       Retry(id) =>
         IF id \notin Ids
         THEN resp'.code = 404 /\ jobs' = jobs
         ELSE IF jobs[id].status = "failed"
         THEN /\ resp'.code = 200
              /\ jobs' = [jobs EXCEPT ![id].status = "pending",
                                       ![id].error = NullS,
                                       ![id].started_at = NullT,
                                       ![id].completed_at = NullT]
         ELSE resp'.code = 400 /\ jobs' = jobs]_vars

\* a retry has just returned a job to pending that had been dequeued and
\* failed at an earlier instant
C9_Witness ==
  /\ resp = Reply("retry", 200, "pending")
  /\ \E i \in Ids :
       /\ jobs[i] = NewRow(jobs[i].url, jobs[i].title, jobs[i].created_at)
       /\ jobs[i].created_at < now

\* the step is the catch block of processNextJob for job J
JobFails(J) == lastEvent.type = "none" /\ lastEvent'.type = "failed" /\ lastEvent'.job = J

\* C10: when processSession throws for job J, the row of J (if it still
\* exists) is failed with the message of the error, or 'Unknown error' when
\* it has none, the flags of the worker and its timer are left as they were,
\* and every poll that finds no job processing and some job pending
\* dequeues a pending job.
C10_FailureKeepsWorker ==
  [][/\ \A J \in 1..MaxJobs :
          JobFails(J) =>
            /\ lastEvent'.error \notin {"", NullS}
            /\ J \in DOMAIN jobs' =>
                 /\ jobs'[J].status = "failed"
                 /\ jobs'[J].error = lastEvent'.error
            /\ isRunning' = isRunning
            /\ pollInterval' = pollInterval
            /\ \A K \in Ids \ {J} : K \in DOMAIN jobs' /\ jobs'[K] = jobs[K]
     /\ \A w, p \in BOOLEAN :
          (/\ Poll(w, p)
           /\ WithStatus(jobs, "processing") = {}
           /\ WithStatus(jobs, "pending") # {})
            => \E K \in WithStatus(jobs, "pending") :
                 /\ jobs'[K].started_at = now
                 /\ jobs'[K].status \in {"processing", "failed"}]_vars

\* the pipeline of a job has just thrown: the job is failed with the message,
\* the worker runs with its timer armed, nothing is processing and another
\* job is pending for the next poll
C10_Witness ==
  /\ lastEvent.type = "failed"
  /\ lastEvent.error = "upstream"
  /\ lastEvent.job \in Ids
  /\ jobs[lastEvent.job].status = "failed"
  /\ jobs[lastEvent.job].error = "upstream"
  /\ isRunning
  /\ pollInterval = 1
  /\ WithStatus(jobs, "processing") = {}
  /\ WithStatus(jobs, "pending") # {}

\* C11: for every diagram the version numbers present are exactly
\* 1..count(diagram), without gaps and without duplicates, after any sequence
\* of version appends (pipeline, POST /api/diagrams, editor save) and version
\* deletions.
C11_VersionsContiguous ==
  \A g \in DOMAIN diagrams :
    {versions[v].version : v \in VersionsOf(Db, g)}
      = 1..Cardinality(VersionsOf(Db, g))

\* C12: in every reachable state each customer owns at most one diagram,
\* after any sequence of pipeline runs, editor saves, merges into an existing
\* customer and session customer updates.
C12_OneDiagramPerCustomer ==
  \A c \in DOMAIN customers : Cardinality(DiagramsOf(Db, c)) <= 1

\* C13: every successful pipeline run whose analysis yields no customer
\* name creates a new customer row and never resolves to a customer that
\* existed before, on the diagram path (addDiagramVersion after a valid
\* diagram) and on the diagram-less path (ensureCustomer).
C13_UnknownAlwaysNew ==
  [][\A r \in 1..MaxRuns :
       /\ \A a \in Analyses :
            (AnalyzeReturn(r, a, NullS) /\ IsUnknown(a) /\ returned'.settled)
              => returned'.customerId \notin DOMAIN customers
       /\ (ValidateReturn(r, FALSE) /\ IsUnknown(runs[r].a) /\ returned'.settled)
            => returned'.customerId \notin DOMAIN customers
       /\ (ValidateReturn(r, TRUE) /\ IsUnknown(runs[r].a))
            => runs'[r].res.customerId \notin DOMAIN customers]_vars

\* the action items of the note of url u in table t
ItemsOfNote(t, u) == {i \in DOMAIN t : t[i].note = u}

TranscriptError == "Failed to fetch transcript or transcript too short"

\* the failing step marks the job of run r failed with message m and writes
\* no customer, diagram, version, session note or action item
FailedClean(job, m) ==
  /\ job \in DOMAIN jobs
       => jobs'[job].status = "failed" /\ jobs'[job].error = m
  /\ lastEvent' = [type |-> "failed", job |-> job, error |-> m]
  /\ UNCHANGED <<dvars, notes, persisted>>

\* C16: if the session validation, the service validation, the transcript
\* fetch (an error, an empty transcript or one shorter than 100 characters)
\* or the analysis fails, the job is marked failed with the text of that
\* error ('Unknown error' for an error without text) and the run has written
\* no customer, diagram, version, session note or action item.
C16_EarlyFailureWritesNothing ==
  [][/\ \A w, p \in BOOLEAN, id \in 1..MaxJobs :
          (/\ Poll(w, p)
           /\ id \in DOMAIN jobs /\ jobs[id].status = "pending"
           /\ jobs'[id] # jobs[id]
           /\ ~validateSession(jobs[id].url).valid \/ ~(w /\ p))
          => /\ FailedClean(id, IF ~validateSession(jobs[id].url).valid
                                THEN validateSession(jobs[id].url).error
                                ELSE validateServices(w, p).error)
             /\ runs' = runs
     /\ \A r \in 1..MaxRuns, len \in TranscriptLens, m \in CollabErrors \cup {NullS} :
          (/\ FetchReturn(r, len, m)
           /\ runs[r].kind = "worker"
           /\ m # NullS \/ len = 0 \/ len < MinTranscriptLen)
          => /\ FailedClean(runs[r].job, IF m = NullS THEN TranscriptError
                                         ELSE IF m = "" THEN "Unknown error" ELSE m)
             /\ runs[r].res = NoResult /\ runs'[r] = NoRun
     /\ \A r \in 1..MaxRuns, a \in Analyses, m \in CollabErrors :
          (AnalyzeReturn(r, a, m) /\ runs[r].kind = "worker")
          => /\ FailedClean(runs[r].job, IF m = "" THEN "Unknown error" ELSE m)
             /\ runs[r].res = NoResult /\ runs'[r] = NoRun]_vars

\* a job has just failed on a transcript that is too short and the tables
\* hold nothing
C16_Witness ==
  /\ lastEvent.type = "failed"
  /\ lastEvent.error = TranscriptError
  /\ lastEvent.job \in DOMAIN jobs
  /\ jobs[lastEvent.job].status = "failed"
  /\ jobs[lastEvent.job].error = TranscriptError
  /\ notes[jobs[lastEvent.job].url] = NoNote
  /\ DOMAIN customers = {} /\ DOMAIN action_items = {}

\* C17: if the pipeline throws after a version has been appended (the write
\* of the session note fails on a url skipped in the meantime), the job is
\* marked failed while the version and the customer and diagram it belongs
\* to remain in the store: nothing the run committed is rolled back.
C17_LateFailureKeepsVersion ==
  [][\A r \in 1..MaxRuns, ok \in BOOLEAN :
       (/\ RenderReturn(r, ok)
        /\ runs[r].kind = "worker"
        /\ runs[r].res.versionId \in DOMAIN versions
        /\ isSessionSkipped(runs[r].url))
       => /\ runs[r].job \in DOMAIN jobs
               => /\ jobs'[runs[r].job].status = "failed"
                  /\ jobs'[runs[r].job].error = UniqueError
          /\ lastEvent' = [type |-> "failed", job |-> runs[r].job, error |-> UniqueError]
          /\ ~returned'.settled
          /\ runs[r].res.versionId \in DOMAIN versions'
          /\ versions'[runs[r].res.versionId].diagram_id = runs[r].res.diagramId
          /\ versions'[runs[r].res.versionId].version
               = versions[runs[r].res.versionId].version
          /\ DOMAIN versions' = DOMAIN versions
          /\ diagrams' = diagrams /\ customers' = customers /\ dsessions' = dsessions
          /\ runs[r].res.diagramId \in DOMAIN diagrams
          /\ diagrams[runs[r].res.diagramId].customer_id = runs[r].res.customerId
          /\ runs[r].res.customerId \in DOMAIN customers
          /\ UNCHANGED <<notes, noteInfo, action_items>>]_vars

\* a job has just failed on the write of the note of a skipped session whose
\* diagram version is in the store
C17_Witness ==
  /\ lastEvent.type = "failed"
  /\ lastEvent.error = UniqueError
  /\ lastEvent.job \in DOMAIN jobs
  /\ jobs[lastEvent.job].status = "failed"
  /\ isSessionSkipped(jobs[lastEvent.job].url)
  /\ \E s \in dsessions :
       /\ s.session_url = jobs[lastEvent.job].url
       /\ VersionsOf(Db, s.diagram_id) # {}

\* C18: deleting a diagram with the keep-notes operation leaves every action
\* item unchanged: the table of action items, hence the items retrievable
\* for the diagram's customer and each of their fields, is the same before
\* and after the deletion.
C18_KeepNotesKeepsItems ==
  [][\A g \in DOMAIN diagrams :
       KeepNotes(g)
       => /\ g \notin DOMAIN diagrams'
          /\ action_items' = action_items
          /\ LET c == diagrams[g].customer_id
             IN {i \in DOMAIN action_items' : action_items'[i].customer_id = c}
                  = {i \in DOMAIN action_items : action_items[i].customer_id = c}]_vars

\* a diagram has just been deleted keeping the notes, and an item of the
\* session it came from is still held by the customer of that session
C18_Witness ==
  /\ resp = Reply("keep-notes", 200, NullS)
  /\ \E i \in DOMAIN action_items :
       LET u == action_items[i].note
       IN /\ u \in URLs
          /\ noteInfo[u].call_type = "non-technical"
          /\ action_items[i].customer_id = noteInfo[u].customer_id
          /\ DiagramsOf(Db, noteInfo[u].customer_id) = {}

\* C19: toggling an action item's completion twice in succession returns its
\* completed flag to the value it had before the first toggle.
C19_ToggleTwiceRestores ==
  [][\A i \in DOMAIN action_items :
       Toggle(i)
       => /\ i \in DOMAIN action_items'
          /\ action_items'[i].completed # action_items[i].completed
          /\ toggleComplete(Db', i, now').items[i].completed
               = action_items[i].completed]_vars

\* the last request toggled an item back to open
C19_Witness ==
  /\ resp = Reply("toggle", 200, NullS)
  /\ action_items # <<>>
  /\ \A i \in DOMAIN action_items : ~action_items[i].completed

\* C20: in every reachable state, every action item has completed_at set if
\* and only if it is completed, whatever items were created, toggled, moved
\* and edited.
C20_CompletedAtIffCompleted ==
  \A i \in DOMAIN action_items :
    (action_items[i].completed_at # NullT) <=> action_items[i].completed

\* a completed item that was edited and moved to another customer
C20_Witness ==
  \E i \in DOMAIN action_items :
    /\ action_items[i].completed
    /\ action_items[i].completed_at # NullT
    /\ action_items[i].text = "i2"
    /\ action_items[i].note \in URLs
    /\ action_items[i].customer_id # noteInfo[action_items[i].note].customer_id

\* C22: POST /api/queue for a url that has a processed session note or a skip
\* placeholder is answered 409 and creates or changes no job row.
C22_NotedRejected ==
  [][\A u \in URLs, t \in Titles :
       (notes[u] # NoNote /\ Enqueue(u, t))
         => /\ resp'.op = "enqueue"
            /\ resp'.code = 409
            /\ resp'.info = (IF notes[u] = "processed" THEN "Session already processed"
                             ELSE "Session was skipped")
            /\ jobs' = jobs
            /\ jobSeq' = jobSeq]_vars

\* an enqueue of a session processed on request, which never had a job, has
\* just been rejected
C22_Witness ==
  /\ resp = Reply("enqueue", 409, "Session already processed")
  /\ notes["u1"] = "processed"
  /\ RowOfUrl(jobs, "u1") = {}

\* the step left the note of url u with n action items, all inserted by the
\* step itself
ItemsReplaced(u, n) ==
  /\ Cardinality(ItemsOfNote(action_items', u)) = n
  /\ ItemsOfNote(action_items', u) \cap DOMAIN action_items = {}

\* C24: after a pipeline run has persisted a session, the action items
\* linked to its note are exactly the ones of the run's analysis: no item an
\* earlier run linked to the note survives, also when the analysis has none.
C24_ItemsReplacedByRun ==
  [][\A r \in 1..MaxRuns :
       /\ \A a \in Analyses :
            (AnalyzeReturn(r, a, NullS) /\ returned'.settled)
              => ItemsReplaced(runs[r].url, a.actionItems)
       /\ (ValidateReturn(r, FALSE) /\ returned'.settled)
            => ItemsReplaced(runs[r].url, runs[r].a.actionItems)
       /\ \A ok \in BOOLEAN :
            (RenderReturn(r, ok) /\ returned'.settled)
              => ItemsReplaced(runs[r].url, runs[r].a.actionItems)]_vars

\* C25: a skip placeholder is never overwritten or removed by a pipeline run,
\* also one that was in flight when the session was skipped: the row stays
\* as it is until POST /api/unskip deletes it.  (session_notes has one row
\* per url by its UNIQUE constraint, which is how the model keeps the table.)
C25_PlaceholderKept ==
  [][\A u \in URLs :
       notes[u] = "skipped"
         => \/ notes'[u] = "skipped" /\ noteInfo'[u] = noteInfo[u]
            \/ Unskip(u) /\ notes'[u] = NoNote]_vars

\* a run that was in flight when its session was skipped has just failed on
\* the placeholder, which is still there
C25_Witness ==
  /\ resp = Reply("process", 500, UniqueError)
  /\ notes["u1"] = "skipped"
  /\ noteInfo["u1"] = SkipInfo

\* C26: every status change of a job row is pending -> processing (dequeue),
\* processing -> completed, processing -> failed (outcome of the run or
\* startup recovery) or failed -> pending (retry or re-enqueue); a completed
\* row never changes status, and the worker writes the outcome of a run only
\* to a row that is still processing.  A poll whose validation fails marks
\* the row processing and failed within one turn, which shows as pending ->
\* failed with started_at set by that turn.
C26_StatusTransitions ==
  [][\A i \in Ids \cap DOMAIN jobs' :
       LET a == jobs[i].status
           b == jobs'[i].status
       IN a # b =>
            \/ a = "pending" /\ b = "processing"
            \/ a = "processing" /\ b \in {"completed", "failed"}
            \/ a = "failed" /\ b = "pending"
            \/ /\ a = "pending" /\ b = "failed"
               /\ jobs[i].started_at = NullT
               /\ jobs'[i].started_at = now]_vars

\* C21: a bulk request puts every considered item (ToQueue: the first limit
\* items, or all of them without a limit) into exactly one of the five
\* counts: they sum to the number of considered items, errors counts the
\* items without session_url, alreadyProcessed and skipped the items whose
\* session has a note or a placeholder, queued is at least the number of
\* rows inserted, and every other considered session has a pending or
\* processing row afterwards, whatever the items around it were.  A
\* processed session, an item without url and a new session give queued 1,
\* alreadyProcessed 1, errors 1.
ItemsWhere(tq, S) == Cardinality({k \in 1..Len(tq) : tq[k] \in S})

CountsFit(tq) ==
  LET c == results'
  IN /\ c.queued + c.skipped + c.alreadyProcessed + c.alreadyQueued + c.errors = Len(tq)
     /\ c.errors = ItemsWhere(tq, {""})
     /\ c.alreadyProcessed = ItemsWhere(tq, {u \in URLs : notes[u] = "processed"})
     /\ c.skipped = ItemsWhere(tq, {u \in URLs : notes[u] = "skipped"})
     /\ c.queued >= jobSeq' - jobSeq
     /\ \A k \in 1..Len(tq) :
          (tq[k] # "" /\ notes[tq[k]] = NoNote)
            => \E i \in RowOfUrl(jobs', tq[k]) : jobs'[i].status \in {"pending", "processing"}
     /\ \A i \in DOMAIN jobs : i \in DOMAIN jobs' /\ jobs'[i].url = jobs[i].url

C23_FailedAlwaysReported ==
  resp.op = "status" =>
    \A i \in WithStatus(jobs, "failed") :
      \E k \in 1..Len(resp.recent_completed) :
        /\ resp.recent_completed[k].id = i
        /\ resp.recent_completed[k].error = jobs[i].error

\* C23, within the window: a job with status failed is among the recent
\* terminal jobs of a status response, with status failed and its error
\* text, as long as fewer than RecentLimit other completed or failed jobs
\* have a completed_at that is not earlier than its own.
NotEarlier(q, i) ==
  {j \in (WithStatus(q, "completed") \cup WithStatus(q, "failed")) \ {i} :
     q[j].completed_at >= q[i].completed_at}

C23_FailedReportedInWindow ==
  resp.op = "status" =>
    \A i \in WithStatus(jobs, "failed") :
      Cardinality(NotEarlier(jobs, i)) < RecentLimit
        => \E k \in 1..Len(resp.recent_completed) :
             /\ resp.recent_completed[k].id = i
             /\ resp.recent_completed[k].status = "failed"
             /\ resp.recent_completed[k].error = jobs[i].error
             /\ jobs[i].error # NullS

C23_Witness ==
  /\ resp.op = "status"
  /\ \E i \in WithStatus(jobs, "failed"), j \in WithStatus(jobs, "completed") :
       /\ jobs[j].completed_at < jobs[i].completed_at
       /\ resp.recent_completed = << [id |-> i, status |-> "failed",
                                      error |-> "upstream",
                                      completed_at |-> jobs[i].completed_at] >>

\* C27: a worker run that ends emits exactly one event, for its job: a
\* 'completed' event when the row of the job has been marked completed with
\* the summary and the customer id of the result, or a 'failed' event when
\* the row has been marked failed with the message of the event; the store
\* holds that terminal status at the moment the listeners are called.
EventAfterMark(id) ==
  /\ lastEvent'.job = id
  /\ lastEvent'.type \in {"completed", "failed"}
  /\ id \in DOMAIN jobs'
  /\ jobs'[id].status = lastEvent'.type
  /\ lastEvent'.type = "completed"
       => /\ returned'.settled
          /\ jobs'[id].result_summary # NullS
          /\ jobs'[id].customer_id = returned'.customerId
          /\ jobs'[id].customer_id # NoId
  /\ lastEvent'.type = "failed"
       => /\ ~returned'.settled
          /\ jobs'[id].error = lastEvent'.error
  /\ \A k \in 1..Len(received') : /\ received'[k].job = id
                                   /\ received'[k].type = lastEvent'.type
                                   /\ received'[k].seen = lastEvent'.type

C27_OneEventAfterMark ==
  [][/\ \A r \in 1..MaxRuns :
          (/\ Idle
           /\ runs[r].kind = "worker"
           /\ runs'[r].kind = "none"
           /\ ~ProcessRestart)
            => EventAfterMark(runs[r].job)
     /\ (Idle /\ lastEvent' # NoEvent)
          => \/ \E r \in 1..MaxRuns : runs[r].kind = "worker" /\ runs'[r].kind = "none"
             \/ /\ runs' = runs
                /\ \E id \in WithStatus(jobs, "pending") :
                     /\ lastEvent'.job = id
                     /\ lastEvent'.type = "failed"
                     /\ jobs'[id].status = "failed"
                     /\ jobs'[id].error = lastEvent'.error]_vars

\* C28: when the worker emits an event, every registered callback is called
\* with it once, in the order of registration, also the callbacks behind one
\* that throws; a callback that is not registered at that moment is not
\* called; the job rows are what markJobCompleted or markJobFailed left,
\* and the worker keeps its state and its timer.
C28_ThrowingListenerContained ==
  [][(Idle /\ lastEvent' # NoEvent) =>
       /\ Len(received') = Len(listeners)
       /\ \A k \in 1..Len(listeners) :
            /\ received'[k].to = listeners[k]
            /\ received'[k].type = lastEvent'.type
            /\ received'[k].job = lastEvent'.job
       /\ \A l \in Listeners :
            (\A k \in 1..Len(listeners) : listeners[k] # l)
              => \A k \in 1..Len(received') : received'[k].to # l
       /\ \E id \in DOMAIN jobs \cup {lastEvent'.job} :
            /\ id = lastEvent'.job
            /\ \/ /\ lastEvent'.type = "completed"
                  /\ jobs' = markJobCompleted(jobs, id, Summary("technical", "Acme"),
                                              returned'.customerId, now)
               \/ /\ lastEvent'.type = "failed"
                  /\ jobs' = markJobFailed(jobs, id, lastEvent'.error, now)
       /\ isRunning' = isRunning
       /\ pollInterval' = pollInterval
       /\ listeners' = listeners]_vars

C28_Witness ==
  /\ lastEvent.type = "completed"
  /\ Len(received) = 2
  /\ Throws(received[1].to)
  /\ ~Throws(received[2].to)
  /\ received[2].seen = "completed"
  /\ isRunning

\* C29: a step of a pipeline run adds a row to diagram_versions exactly when
\* the run is a technical call with diagram code whose validation has just
\* answered valid, and then it adds one row; no other step of a run adds a
\* diagram or a version, so a partner or non-technical call never does;
\* and a run that resolves reports hasDiagram exactly when it has added a
\* version.
RunStep(r) == runs[r].kind \in {"worker", "direct"} /\ runs'[r] # runs[r]

C29_VersionIffTechnicalValid ==
  [][\A r \in 1..MaxRuns :
       (Idle /\ RunStep(r) /\ ~ProcessRestart) =>
         LET a == runs[r].a
             appended == /\ runs[r].stage = "validate"
                         /\ a.callType = "technical"
                         /\ a.mermaidCode # NullS
                         /\ logged' # InvalidLog
         IN /\ appended
                 => /\ Cardinality(DOMAIN versions') = Cardinality(DOMAIN versions) + 1
                    /\ DOMAIN versions \subseteq DOMAIN versions'
                    /\ runs'[r].res.versionId \in DOMAIN versions' \ DOMAIN versions
                    /\ runs'[r].res.diagramId \in DOMAIN diagrams'
            /\ ~appended
                 => /\ DOMAIN versions' = DOMAIN versions
                    /\ DOMAIN diagrams' = DOMAIN diagrams
            /\ runs[r].stage \in {"validate", "render"}
                 => a.callType = "technical" /\ a.mermaidCode # NullS
            /\ returned'.settled
                 => (returned'.hasDiagram <=> runs[r].res.versionId # NoId)]_vars

C29_Witness ==
  /\ returned.settled
  /\ returned.hasDiagram
  /\ lastEvent.type = "completed"
  /\ \E v \in DOMAIN versions : versions[v].diagram_id = returned.diagramId

\* C30: at most one interval timer is armed, and it is armed exactly while
\* isRunning; isRunning changes only by start() (to true), stop() (to false)
\* or the end of the process; start() while running and stop() while
\* stopped change nothing: no recovery pass, no timer; and while the worker
\* is stopped no job is marked processing.
C30_OneTimerStartStop ==
  [][/\ pollInterval \in {0, 1} /\ pollInterval' \in {0, 1}
     /\ (pollInterval' = 1) <=> isRunning'
     /\ (isRunning /\ Start) => UNCHANGED vars
     /\ (~isRunning /\ Stop) => UNCHANGED vars
     /\ (~isRunning /\ isRunning') => Start /\ pollInterval' = pollInterval + 1
     /\ (isRunning /\ ~isRunning') => Stop \/ ProcessRestart
     /\ ~isRunning
          => \A i \in DOMAIN jobs' :
               jobs'[i].status = "processing"
                 => i \in DOMAIN jobs /\ jobs[i].status = "processing"]_vars

\* the worker has been stopped after it ran a job, and a pending job waits
C30_Witness ==
  /\ ~isRunning
  /\ pollInterval = 0
  /\ WithStatus(jobs, "pending") # {}
  /\ WithStatus(jobs, "completed") # {}

\* C31: a status request changes nothing but the response: no job row, no
\* worker state.  The response reports the number of pending rows, as
\* current job a processing row when there is one and none otherwise, and
\* as recent jobs at most RecentLimit completed or failed rows, no row
\* twice, latest completed_at first, none of the rows left out being later
\* than a row listed.
Terminal(q) == WithStatus(q, "completed") \cup WithStatus(q, "failed")

C32_StartReceivesCount ==
  [][(Idle /\ ~isRunning /\ isRunning' /\ Start) =>
       /\ staleCount(jobs).defined
       /\ staleCount(jobs).n =
            Cardinality({i \in DOMAIN jobs : /\ jobs[i].status = "processing"
                                              /\ i \in DOMAIN jobs'
                                              /\ jobs'[i].status = "failed"})]_vars

\* C33: processing_queue never holds two rows with the same session_url,
\* whatever enqueue, bulk enqueue, cancel and retry requests were made.
C33_OneRowPerSession ==
  \A i, j \in DOMAIN jobs : jobs[i].url = jobs[j].url => i = j

\* a bulk request that named the same session twice has left one row
C33_Witness ==
  /\ resp.op = "bulk"
  /\ results = [NoCounts EXCEPT !.queued = 1, !.alreadyQueued = 1]
  /\ jobSeq = 1
  /\ Cardinality(DOMAIN jobs) = 1

\* C34: while the worker is running, a job that is pending is later
\* completed or failed.
C34_PendingEventuallyTerminal ==
  \A i \in 1..MaxJobs :
    (isRunning /\ i \in DOMAIN jobs /\ jobs[i].status = "pending")
      ~> (i \in DOMAIN jobs /\ jobs[i].status \in {"completed", "failed"})

\* the worker is running and has brought both jobs to an end, one of each
C34_Witness ==
  /\ isRunning
  /\ WithStatus(jobs, "completed") # {}
  /\ WithStatus(jobs, "failed") # {}
  /\ WithStatus(jobs, "pending") \cup WithStatus(jobs, "processing") = {}

\* C35: the session of a completed job has a note that is not a skip
\* placeholder, with the call type the pipeline stored; skip, unskip and
\* the deletion or merge of its customer leave that note in place.
C35_CompletedHasNote ==
  \A i \in WithStatus(jobs, "completed") :
    /\ notes[jobs[i].url] = "processed"
    /\ noteInfo[jobs[i].url].call_type = "technical"

\* the customer of a completed job's session has been merged into another
\* one and deleted; the note is still there, without customer
C35_Witness ==
  /\ resp = Reply("assign", 200, NullS)
  /\ \E i \in WithStatus(jobs, "completed") :
       /\ notes[jobs[i].url] = "processed"
       /\ noteInfo[jobs[i].url].customer_id = NoId
       /\ jobs[i].customer_id = NoId

\* C36: the prune of start() works on the table the recovery left: every
\* row it removes is completed or failed, and was so before start(); every
\* row it keeps is as the recovery left it; a row that was pending is
\* unchanged and a row that was processing is still there.
C36_PruneOnlyTerminal ==
  [][(Idle /\ WorkerStarts /\ Start) =>
       LET q == resetStaleQueueJobs(jobs, now)
       IN /\ DOMAIN jobs' \subseteq DOMAIN q
          /\ \A i \in DOMAIN q \ DOMAIN jobs' :
               /\ q[i].status \in {"completed", "failed"}
               /\ jobs[i].status \in {"completed", "failed"}
          /\ \A i \in DOMAIN jobs' : jobs'[i] = q[i]
          /\ \A i \in WithStatus(jobs, "pending") :
               i \in DOMAIN jobs' /\ jobs'[i] = jobs[i]
          /\ \A i \in WithStatus(jobs, "processing") : i \in DOMAIN jobs']_vars

\* start() has pruned the first job and left the pending second one
C36_Witness ==
  /\ isRunning
  /\ Active = {}
  /\ jobSeq = 2
  /\ DOMAIN jobs = {2}
  /\ jobs[2].status = "pending"
  /\ jobs[2].started_at = NullT
  /\ jobs[2].created_at < now - PruneAge

====
